---------------------------- MODULE Spec2Model ----------------------------
(***************************************************************************)
(* Model of the trading engine core (src/core): the order management       *)
(* system (OMS), the trade management system (TMS), positions, ledgers and *)
(* the rule policies of the Account / Fund / Portfolio / Strategy          *)
(* hierarchy.                                                              *)
(*                                                                         *)
(* Python floats are modelled as exact rationals <<n, d>> in lowest terms  *)
(* (d > 0); the percentage limits and capitals of the model are chosen so  *)
(* that the float computation of the source is exact on them.              *)
(***************************************************************************)
EXTENDS Integers, Sequences, FiniteSets, TLC

(***************************************************************************)
(* Bounds of the model                                                     *)
(***************************************************************************)
MaxQty == 2
MaxPrice == 2
MaxFills == 3
MaxRecords == 2
MaxRuleChanges == 1
MaxPolicyChanges == 2
MaxCapital == 2
MaxBooked == 2
MaxDays == 3
MaxCommission == 1

(***************************************************************************)
(* Objects of the hierarchy                                                *)
(***************************************************************************)
None == "None"
Strategies == {"S1", "S2"}
Symbols == {"AAPL", "TSLA"}
Prices == 1..MaxPrice
\* price = None, the default of place_trade: no price given
NoPrice == 0
Quantities == 1..MaxQty

\* Trade constants (src/core/trade.py)
MARKET == "MARKET"
LIMIT == "LIMIT"
STOP_LOSS == "STOP_LOSS"
STOP_LIMIT == "STOP_LIMIT"
TRAILING_STOP == "TRAILING_STOP"
BUY == "BUY"
SELL == "SELL"
SELL_SHORT == "SELL_SHORT"
BUY_TO_COVER == "BUY_TO_COVER"
PENDING == "PENDING"
SUBMITTED == "SUBMITTED"
FILLED == "FILLED"

AllTradeTypes == {MARKET, LIMIT, STOP_LOSS, STOP_LIMIT, TRAILING_STOP}
AllDirections == {BUY, SELL, SELL_SHORT, BUY_TO_COVER}

\* Capital of the objects of the model
LimitPct == 2
StrategyBalance == 2
PortfolioBalance == 100

(***************************************************************************)
(* Exact rationals standing for Python floats                              *)
(***************************************************************************)
Abs(x) == IF x < 0 THEN -x ELSE x

RECURSIVE GCD(_, _)
GCD(a, b) == IF b = 0 THEN a ELSE GCD(b, a % b)

Rat(n, d) ==
    LET s == IF d < 0 THEN -1 ELSE 1
        g == GCD(Abs(n), Abs(d))
    IN  IF n = 0 THEN <<0, 1>> ELSE <<(s * n) \div g, (s * d) \div g>>

RInt(i) == <<i, 1>>
RAdd(x, y) == Rat(x[1] * y[2] + y[1] * x[2], x[2] * y[2])
RSub(x, y) == Rat(x[1] * y[2] - y[1] * x[2], x[2] * y[2])
RMul(x, y) == Rat(x[1] * y[1], x[2] * y[2])
RDiv(x, y) == Rat(x[1] * y[2], x[2] * y[1])
RLess(x, y) == x[1] * y[2] < y[1] * x[2]

(***************************************************************************)
(* Trade (src/core/trade.py) and its simulated fill                        *)
(***************************************************************************)
\* Trade.__init__: a PENDING trade with nothing filled
NewTrade(symbol, direction, quantity, trade_type, strategy, price) ==
    [trade_id |-> 0, symbol |-> symbol, direction |-> direction,
     quantity |-> quantity, trade_type |-> trade_type, strategy |-> strategy,
     price |-> price, status |-> PENDING, filled_quantity |-> 0,
     avg_fill_price |-> 0, commission |-> <<0, 1>>]

\* execute_trade, lines 100-108: identifier, SUBMITTED, then FILLED in full
FillTrade(trade, id) ==
    [trade EXCEPT !.trade_id = id, !.status = FILLED,
                  !.filled_quantity = trade.quantity,
                  !.avg_fill_price = trade.price]

\* a trade built by Trade(...) and filled in full
Fill(s, symbol, direction, quantity, price, id) ==
    FillTrade(NewTrade(symbol, direction, quantity, MARKET, s, price), id)

(***************************************************************************)
(* Position (src/core/position.py)                                         *)
(***************************************************************************)
\* the slot of a (strategy_id, symbol) key that is not in tms.positions
NoPosition ==
    [exists |-> FALSE, quantity |-> 0, avg_entry_price |-> <<0, 1>>,
     total_cost_basis |-> <<0, 1>>, realized_pnl |-> <<0, 1>>,
     opening_trades |-> <<>>, closing_trades |-> <<>>,
     opened_at |-> 0, closed_at |-> 0]

\* Position.__init__ at time now (closed_at = 0 stands for None)
NewPosition(now) == [NoPosition EXCEPT !.exists = TRUE, !.opened_at = now]

is_closed(pos) == pos.quantity = 0

\* a mutant of realized_on_close: the difference taken the other way round
realized_on_close_reversed(trade, pos) ==
    RMul(RSub(pos.avg_entry_price, RInt(trade.avg_fill_price)),
         RInt(trade.filled_quantity))

\* line 119: the realized P&L of a sale that closes long quantity
realized_on_close(trade, pos) ==
    RMul(RSub(RInt(trade.avg_fill_price), pos.avg_entry_price),
         RInt(trade.filled_quantity))

\* Position.update_from_trade at time now
update_from_trade(pos, trade, now) ==
    LET tc(p) == [p EXCEPT !.total_cost_basis =
                      RMul(RInt(Abs(p.quantity)), p.avg_entry_price)]
    IN
    IF trade.direction \in {BUY, BUY_TO_COVER}
    THEN LET old_value == RMul(RInt(pos.quantity), pos.avg_entry_price)
             new_value == RInt(trade.filled_quantity * trade.avg_fill_price)
             qty == pos.quantity + trade.filled_quantity
         IN  tc([pos EXCEPT
                   !.quantity = qty,
                   !.avg_entry_price =
                       IF qty # 0 THEN RDiv(RAdd(old_value, new_value), RInt(qty))
                       ELSE pos.avg_entry_price,
                   !.opening_trades = Append(pos.opening_trades, trade.trade_id)])
    ELSE LET closing == trade.direction = SELL /\ pos.quantity > 0
             realized == realized_on_close(trade, pos)
             qty == pos.quantity - trade.filled_quantity
         IN  tc([pos EXCEPT
                   !.realized_pnl = IF closing THEN RAdd(pos.realized_pnl, realized)
                                    ELSE pos.realized_pnl,
                   !.closing_trades = IF closing
                                      THEN Append(pos.closing_trades, trade.trade_id)
                                      ELSE pos.closing_trades,
                   !.quantity = qty,
                   !.closed_at = IF qty = 0 THEN now ELSE pos.closed_at])


(***************************************************************************)
(* TradeRules (src/core/rules.py) and AggregatedRules                      *)
(* (src/core/order_management.py).  allowed_symbols = None is the record   *)
(* [none |-> TRUE, symbols |-> {}].                                        *)
(***************************************************************************)
NoWhitelist == [none |-> TRUE, symbols |-> {}]
Whitelist(S) == [none |-> FALSE, symbols |-> S]

\* TradeRules.__init__
DefaultTradeRules ==
    [allowed_trade_types |-> AllTradeTypes,
     allowed_directions |-> AllDirections,
     allow_short_selling |-> TRUE, allow_margin |-> TRUE,
     allow_options |-> FALSE, allow_futures |-> FALSE,
     max_position_size_pct |-> 100, max_single_trade_pct |-> 100,
     allowed_symbols |-> NoWhitelist, restricted_symbols |-> {}]

\* AggregatedRules.__init__
InitialAggregatedRules ==
    [allow_short_selling |-> TRUE, allow_margin |-> TRUE,
     allow_options |-> FALSE, allow_futures |-> FALSE,
     max_position_size_pct |-> 100, max_single_trade_pct |-> 100,
     allowed_symbols |-> NoWhitelist, restricted_symbols |-> {},
     allowed_trade_types |-> AllTradeTypes,
     allowed_directions |-> AllDirections]

Min(a, b) == IF a < b THEN a ELSE b

\* AggregatedRules.apply
apply(agg, rules) ==
    [allow_short_selling |-> agg.allow_short_selling /\ rules.allow_short_selling,
     allow_margin |-> agg.allow_margin /\ rules.allow_margin,
     allow_options |-> agg.allow_options /\ rules.allow_options,
     allow_futures |-> agg.allow_futures /\ rules.allow_futures,
     max_position_size_pct |->
         Min(agg.max_position_size_pct, rules.max_position_size_pct),
     max_single_trade_pct |->
         Min(agg.max_single_trade_pct, rules.max_single_trade_pct),
     allowed_trade_types |->
         agg.allowed_trade_types \cap rules.allowed_trade_types,
     allowed_directions |->
         agg.allowed_directions \cap rules.allowed_directions,
     allowed_symbols |->
         IF ~rules.allowed_symbols.none
         THEN IF agg.allowed_symbols.none
              THEN rules.allowed_symbols
              ELSE Whitelist(agg.allowed_symbols.symbols
                               \cap rules.allowed_symbols.symbols)
         ELSE agg.allowed_symbols,
     restricted_symbols |->
         agg.restricted_symbols \cup rules.restricted_symbols]

\* The policies one assignment level.trade_rules.<field> = value leaves, for
\* the fields named
RuleSettings(rules, fields) ==
    (IF "allow_short_selling" \in fields
     THEN {[rules EXCEPT !.allow_short_selling = FALSE]} ELSE {})
    \cup (IF "allow_margin" \in fields
          THEN {[rules EXCEPT !.allow_margin = FALSE]} ELSE {})
    \cup (IF "allow_options" \in fields
          THEN {[rules EXCEPT !.allow_options = TRUE]} ELSE {})
    \cup (IF "allow_futures" \in fields
          THEN {[rules EXCEPT !.allow_futures = TRUE]} ELSE {})
    \cup (IF "max_position_size_pct" \in fields
          THEN {[rules EXCEPT !.max_position_size_pct = LimitPct]} ELSE {})
    \cup (IF "max_single_trade_pct" \in fields
          THEN {[rules EXCEPT !.max_single_trade_pct = LimitPct]} ELSE {})
    \cup (IF "allowed_symbols" \in fields
          THEN {[rules EXCEPT !.allowed_symbols = Whitelist({y})] : y \in Symbols}
          ELSE {})
    \cup (IF "restricted_symbols" \in fields
          THEN {[rules EXCEPT !.restricted_symbols = {"TSLA"}]} ELSE {})
    \cup (IF "allowed_trade_types" \in fields
          THEN {[rules EXCEPT !.allowed_trade_types = {MARKET}]} ELSE {})
    \cup (IF "allowed_directions" \in fields
          THEN {[rules EXCEPT !.allowed_directions = {BUY, SELL}]} ELSE {})

(***************************************************************************)
(* State                                                                   *)
(***************************************************************************)
VARIABLES
    portfolio,      \* strategy.portfolio: "P1" or None
    fund,           \* portfolio.fund of P1: "F1" or None
    trade_account,  \* fund.trade_account of F1: "A1" or None
    trade_rules,    \* trade_rules of P1 and F1
    positions,      \* tms.positions, by <<strategy_id, symbol>>
    ledger,         \* ledger.trades of every strategy, P1, F1 and A1
    trades,         \* strategy.trades
    clock,          \* datetime.now(), counted in position updates
    next_id,        \* the next fresh identifier (uuid4)
    nrules,         \* number of policy changes made
    capital,        \* the capital of the fund of the account, of its
                    \* portfolios and of their strategies
    systems,        \* of every object constructed: its parent, its _oms and
                    \* _tms, and _is_oms_tms_owner
    strategy_id,    \* strategy.strategy_id of every Strategy object
    last            \* the last call: its arguments, the quantity held when
                    \* it was made, and its outcome

vars == <<portfolio, fund, trade_account, trade_rules, positions, ledger,
          trades, clock, next_id, nrules, capital, systems, strategy_id,
          last>>

Levels == {"P1", "F1"}
Owners == Strategies \cup {"P1", "F1", "A1"}

NoTrade == NewTrade(None, None, 0, None, None, 0)

NoCall ==
    [op |-> "none", strategy |-> None, symbol |-> None, action |-> None,
     quantity |-> 0, order_type |-> None, price |-> 0, current_qty |-> 0,
     outcome |-> None, raised_at |-> None, reason |-> None,
     instructions |-> <<>>, order_status |-> None,
     executed_trades |-> <<>>, trade |-> NoTrade,
     child |-> None, parent |-> None, balance |-> 0, rules |-> None,
     direction |-> None,
     current_prices |-> [y \in Symbols |-> NoPrice], equity_curve |-> <<>>,
     winning_trades |-> 0, losing_trades |-> 0, win_rate |-> <<0, 1>>,
     plan |-> <<>>, commission_pct |-> <<0, 1>>, charged |-> <<>>]

\* the fund above a strategy's portfolio, the account above that fund
FundOf(s) == IF portfolio[s] = None THEN None ELSE fund
AccountOf(s) == IF FundOf(s) = None THEN None ELSE trade_account

\* The shapes of the hierarchy: P1 above any of the strategies, F1 above P1,
\* A1 above F1
Topologies ==
    { t \in [portfolio : [Strategies -> {"P1", None}],
             fund : {"F1", None}, trade_account : {"A1", None}] :
        /\ (t.fund = None => t.trade_account = None)
        /\ ((\A s \in Strategies : t.portfolio[s] = None) => t.fund = None) }

InitHierarchy(T) ==
    \E t \in T : /\ portfolio = t.portfolio
                 /\ fund = t.fund
                 /\ trade_account = t.trade_account

(***************************************************************************)
(* Order management system (src/core/order_management.py)                  *)
(***************************************************************************)
TradeInstruction(strategy, symbol, direction, quantity, order_type, price) ==
    [strategy |-> strategy, symbol |-> symbol, direction |-> direction,
     quantity |-> quantity, order_type |-> order_type, price |-> price]

\* OrderManagementSystem._aggregate_rules, the policies of the levels being
\* policies
aggregate_policies(s, policies) ==
    IF portfolio[s] # None
    THEN LET r1 == apply(InitialAggregatedRules, policies["P1"])
         IN  IF fund # None THEN apply(r1, policies["F1"]) ELSE r1
    ELSE InitialAggregatedRules

\* a mutant of intersection: set.intersection_update, which narrows the set
\* object it is called on
intersection_update(own, other) ==
    [returned |-> own \cap other, own |-> own \cap other]

\* own.intersection(other) on a set object: the new set returned, and the
\* object it was called on, which is left as it was
intersection(own, other) == [returned |-> own \cap other, own |-> own]

\* The policies of the levels once _aggregate_rules(s) has returned.  The
\* aggregate owns the sets __init__ gave it, except allowed_symbols: apply
\* binds it to the whitelist object of the first level that has one (line
\* 104), so the whitelist of the portfolio is the object the fund's apply
\* calls intersection on (line 106).
policies_after_aggregate(s, policies) ==
    IF /\ portfolio[s] # None /\ fund # None
       /\ ~policies["P1"].allowed_symbols.none
       /\ ~policies["F1"].allowed_symbols.none
    THEN [policies EXCEPT !["P1"].allowed_symbols.symbols =
              intersection(@, policies["F1"].allowed_symbols.symbols).own]
    ELSE policies

\* OrderManagementSystem._aggregate_rules
_aggregate_rules(s) == aggregate_policies(s, trade_rules)

\* TradeManagementSystem.get_position; NoPosition stands for None
get_position(pos, s, symbol) == pos[<<s, symbol>>]

\* a mutant of covers_short: the comparison made strict
covers_short_strict(quantity, short_qty) == quantity < short_qty

\* line 372: the buy stays within the short position
covers_short(quantity, short_qty) == quantity <= short_qty

\* a mutant of closes_long: a sale of more than the long held is not split
closes_long_always(quantity, current_qty) == TRUE

\* line 410: the sale stays within the long position
closes_long(quantity, current_qty) == quantity <= current_qty

\* a mutant of short_selling_disabled: the gate never closes
short_selling_never_disabled(rules) == FALSE

\* lines 436 and 468: the short-selling gate
short_selling_disabled(rules) == ~rules.allow_short_selling

\* OrderManagementSystem._determine_trade_directions: the instructions, or
\* rejected = TRUE when OrderRejected is raised by the short-selling gate
_determine_trade_directions(order, current_position, rules) ==
    LET current_qty == IF current_position.exists
                       THEN current_position.quantity ELSE 0
        quantity == order.quantity
        I(direction, qty) ==
            TradeInstruction(order.strategy, order.symbol, direction, qty,
                             order.order_type, order.price)
        ok(instrs) == [rejected |-> FALSE, instructions |-> instrs]
        reject == [rejected |-> TRUE, instructions |-> <<>>]
    IN  IF order.action = "BUY"
        THEN IF current_qty >= 0
             THEN ok(<<I(BUY, quantity)>>)
             ELSE LET short_qty == Abs(current_qty)
                  IN  IF covers_short(quantity, short_qty)
                      THEN ok(<<I(BUY_TO_COVER, quantity)>>)
                      ELSE ok(<<I(BUY_TO_COVER, short_qty),
                                I(BUY, quantity - short_qty)>>)
        ELSE IF order.action = "SELL"
        THEN IF current_qty > 0
             THEN IF closes_long(quantity, current_qty)
                  THEN ok(<<I(SELL, quantity)>>)
                  ELSE IF short_selling_disabled(rules)
                       THEN reject
                       ELSE ok(<<I(SELL, current_qty),
                                 I(SELL_SHORT, quantity - current_qty)>>)
             ELSE IF current_qty < 0
             THEN ok(<<I(SELL_SHORT, quantity)>>)
             ELSE IF short_selling_disabled(rules)
                  THEN reject
                  ELSE ok(<<I(SELL_SHORT, quantity)>>)
        ELSE ok(<<>>)

\* a mutant of symbol_restricted: the blacklist is not consulted
symbol_never_restricted(symbol, rules) == FALSE

\* a mutant of symbol_restricted: the blacklist read as a list of the symbols
\* permitted
symbol_unlisted(symbol, rules) == symbol \notin rules.restricted_symbols

\* line 512: the symbol is on the blacklist
symbol_restricted(symbol, rules) == symbol \in rules.restricted_symbols

\* a mutant of exceeds_trade_limit: a trade at the limit is refused
reaches_trade_limit(trade_value, portfolio_value, rules) ==
    trade_value * 100 >= rules.max_single_trade_pct * portfolio_value

\* lines 522-523: (trade_value / portfolio_value) * 100 > max_single_trade_pct
exceeds_trade_limit(trade_value, portfolio_value, rules) ==
    trade_value * 100 > rules.max_single_trade_pct * portfolio_value

\* OrderManagementSystem._validate_instruction: "OK", or the rule that failed,
\* or "TypeError" when the product quantity * None is taken
_validate_instruction(instruction, rules, current_position, s) ==
    IF instruction.direction \notin rules.allowed_directions
    THEN "direction"
    ELSE IF instruction.order_type \notin rules.allowed_trade_types
    THEN "trade_type"
    ELSE IF ~rules.allowed_symbols.none
            /\ instruction.symbol \notin rules.allowed_symbols.symbols
    THEN "allowed_symbols"
    ELSE IF symbol_restricted(instruction.symbol, rules)
    THEN "restricted_symbols"
    ELSE IF portfolio[s] # None /\ PortfolioBalance > 0
    THEN IF instruction.price = NoPrice THEN "TypeError" ELSE
         LET portfolio_value == PortfolioBalance
             trade_value == instruction.quantity * instruction.price
         IN  IF exceeds_trade_limit(trade_value, portfolio_value, rules)
             THEN "max_single_trade_pct"
             ELSE IF current_position.exists
             THEN LET new_qty ==
                          IF instruction.direction \in {BUY, BUY_TO_COVER}
                          THEN current_position.quantity + instruction.quantity
                          ELSE current_position.quantity - instruction.quantity
                      new_position_value == Abs(new_qty) * instruction.price
                  IN  IF new_position_value * 100
                           > rules.max_position_size_pct * portfolio_value
                      THEN "max_position_size_pct"
                      ELSE "OK"
             ELSE "OK"
    ELSE "OK"

\* the loop of create_order over the instructions: the first failure, or "OK"
RECURSIVE ValidateAll(_, _, _, _)
ValidateAll(instrs, rules, current_position, s) ==
    IF instrs = <<>> THEN "OK"
    ELSE LET r == _validate_instruction(Head(instrs), rules, current_position, s)
         IN  IF r # "OK" THEN r
             ELSE ValidateAll(Tail(instrs), rules, current_position, s)

\* Strategy.get_cash_balance() without prices: raised = TRUE when
\* pos.get_market_value, which Position does not define, is called
get_cash_balance(pos, s) ==
    LET open == { y \in Symbols : pos[<<s, y>>].exists /\ ~is_closed(pos[<<s, y>>]) }
    IN  IF open # {} THEN [raised |-> TRUE, value |-> 0]
        ELSE [raised |-> FALSE, value |-> StrategyBalance - 0]

\* lines 555-558: total_cost, the sum of quantity * price over the BUY and
\* BUY_TO_COVER instructions in their order; raised = TRUE, and no value,
\* when one of them has no price (int * None is a TypeError)
RECURSIVE TotalCost(_)
TotalCost(instrs) ==
    IF instrs = <<>> THEN [raised |-> FALSE, value |-> 0]
    ELSE IF /\ Head(instrs).direction \in {BUY, BUY_TO_COVER}
            /\ Head(instrs).price = NoPrice
    THEN [raised |-> TRUE]
    ELSE LET rest == TotalCost(Tail(instrs))
         IN  IF rest.raised THEN [raised |-> TRUE]
             ELSE [raised |-> FALSE,
                   value |-> (IF Head(instrs).direction
                                    \in {BUY, BUY_TO_COVER}
                              THEN Head(instrs).quantity * Head(instrs).price
                              ELSE 0)
                             + rest.value]

\* OrderManagementSystem._check_sufficient_funds: "OK" or the error raised
_check_sufficient_funds(pos, s, instrs) ==
    LET total_cost == TotalCost(instrs)
    IN  IF total_cost.raised
        THEN "TypeError"
        ELSE IF total_cost.value > 0
        THEN LET available_cash == get_cash_balance(pos, s)
             IN  IF available_cash.raised THEN "AttributeError"
                 ELSE IF total_cost.value > available_cash.value
                 THEN "InsufficientFundsError"
                 ELSE "OK"
        ELSE "OK"

\* Ledger has no method record_rejection: the call in create_order raises
LedgerMethods ==
    {"record_trade", "get_all_trades", "get_trades_by_symbol",
     "get_trades_by_status", "get_trades_by_direction",
     "get_trades_by_date_range", "get_filled_trades", "get_pending_trades",
     "get_symbols_traded", "get_trade_count", "get_filled_trade_count",
     "get_total_volume", "get_total_commission", "get_buy_vs_sell_ratio",
     "get_activity_by_date", "summary", "export_to_dict"}

\* OrderManagementSystem.create_order under the policies given: the order it
\* returns (outcome "OK", status VALIDATED) or the error it raises
create_order_under(policies, pos, s, symbol, action, quantity, order_type, price) ==
    LET order == [strategy |-> s, symbol |-> symbol, action |-> action,
                  quantity |-> quantity, order_type |-> order_type,
                  price |-> price]
        res(outcome, at, reason, instrs, status) ==
            [outcome |-> outcome, raised_at |-> at, reason |-> reason,
             instructions |-> instrs, order_status |-> status]
    IN  IF action \notin {"BUY", "SELL"}
        THEN res("ValueError", "action", None, <<>>, None)
        ELSE IF quantity <= 0
        THEN res("ValueError", "quantity", None, <<>>, None)
        ELSE
        LET aggregated_rules == aggregate_policies(s, policies)
            current_position == get_position(pos, s, symbol)
            d == _determine_trade_directions(order, current_position,
                                             aggregated_rules)
            v == ValidateAll(d.instructions, aggregated_rules,
                             current_position, s)
            f == _check_sufficient_funds(pos, s, d.instructions)
        IN  IF d.rejected
            THEN res("OrderRejected", "_determine_trade_directions",
                     "allow_short_selling", <<>>, PENDING)
            ELSE IF v = "TypeError"
            THEN res("TypeError", "_validate_instruction", None,
                     d.instructions, PENDING)
            ELSE IF v # "OK"
            THEN IF "record_rejection" \in LedgerMethods
                 THEN res("OrderRejected", "_validate_instruction", v,
                          d.instructions, PENDING)
                 ELSE res("AttributeError", "record_rejection", v,
                          d.instructions, PENDING)
            ELSE IF f # "OK"
            THEN res(f, IF f = "AttributeError" THEN "get_market_value"
                        ELSE "_check_sufficient_funds",
                     None, d.instructions, PENDING)
            ELSE res("OK", None, None, d.instructions, "VALIDATED")

\* OrderManagementSystem.create_order, under the policies of the hierarchy
create_order(pos, s, symbol, action, quantity, order_type, price) ==
    create_order_under(trade_rules, pos, s, symbol, action, quantity,
                       order_type, price)


(***************************************************************************)
(* Trade management system (src/core/trade_management.py).  The operators  *)
(* act on the record w of the mutable state: positions, ledger, trades,    *)
(* clock, next_id.                                                         *)
(***************************************************************************)
World ==
    [positions |-> positions, ledger |-> ledger, trades |-> trades,
     clock |-> clock, next_id |-> next_id]

\* the parameters Trade.__init__ declares (src/core/trade.py:36-37)
TradeInitParams ==
    {"symbol", "direction", "quantity", "trade_type", "strategy", "price",
     "stop_price"}

\* the keyword arguments execute_trade passes to Trade(...)
ExecuteTradeKeywords ==
    {"symbol", "direction", "quantity", "trade_type", "strategy", "price",
     "stop_price", "trade_date"}

\* TradeManagementSystem._update_position
_update_position(w, s, trade) ==
    LET key == <<s, trade.symbol>>
        position == IF w.positions[key].exists THEN w.positions[key]
                    ELSE NewPosition(w.clock)
    IN  [w EXCEPT !.positions[key] = update_from_trade(position, trade, w.clock),
                  !.clock = w.clock + 1]

\* a mutant of get_all_trades: the list of the ledger itself is returned
get_all_trades_itself(l) == [returned |-> l, is_copy |-> FALSE]

\* Ledger.get_all_trades: self.trades.copy()
get_all_trades(l) == [returned |-> l, is_copy |-> TRUE]

\* Ledger.record_trade
record_trade(l, trade) == Append(l, trade)

\* a mutant of _record_in_hierarchy_ledgers: the fund's ledger is passed over
_record_in_hierarchy_ledgers_past_fund(w, s, trade) ==
    LET l0 == [w.ledger EXCEPT ![s] = record_trade(@, trade)]
        l1 == IF portfolio[s] # None
              THEN [l0 EXCEPT !["P1"] = record_trade(@, trade)] ELSE l0
        l3 == IF portfolio[s] # None /\ fund # None /\ trade_account # None
              THEN [l1 EXCEPT !["A1"] = record_trade(@, trade)] ELSE l1
    IN  [w EXCEPT !.ledger = l3, !.trades[s] = Append(@, trade)]

\* TradeManagementSystem._record_in_hierarchy_ledgers
_record_in_hierarchy_ledgers(w, s, trade) ==
    LET l0 == [w.ledger EXCEPT ![s] = record_trade(@, trade)]
        l1 == IF portfolio[s] # None
              THEN [l0 EXCEPT !["P1"] = record_trade(@, trade)] ELSE l0
        l2 == IF portfolio[s] # None /\ fund # None
              THEN [l1 EXCEPT !["F1"] = record_trade(@, trade)] ELSE l1
        l3 == IF portfolio[s] # None /\ fund # None /\ trade_account # None
              THEN [l2 EXCEPT !["A1"] = record_trade(@, trade)] ELSE l2
    IN  [w EXCEPT !.ledger = l3, !.trades[s] = Append(@, trade)]

\* a mutant of execute_trade: the TypeError comes after the position update
execute_trade_updating(w, instruction) ==
    LET trade == FillTrade(NewTrade(instruction.symbol, instruction.direction,
                                    instruction.quantity,
                                    instruction.order_type,
                                    instruction.strategy, instruction.price),
                           w.next_id)
    IN  [raised |-> TRUE,
         w |-> _update_position([w EXCEPT !.next_id = w.next_id + 1],
                                instruction.strategy, trade),
         trade |-> NoTrade]

\* a mutant of execute_trade: Trade(...) takes the keywords it is passed, and
\* the trade is filled, applied to the position and entered in the ledgers
execute_trade_filling(w, instruction) ==
    LET trade == FillTrade(NewTrade(instruction.symbol, instruction.direction,
                                    instruction.quantity,
                                    instruction.order_type,
                                    instruction.strategy, instruction.price),
                           w.next_id)
        w1 == [w EXCEPT !.next_id = w.next_id + 1]
        w2 == _update_position(w1, instruction.strategy, trade)
        w3 == _record_in_hierarchy_ledgers(w2, instruction.strategy, trade)
    IN  [raised |-> FALSE, w |-> w3, trade |-> trade]

\* TradeManagementSystem.execute_trade: Trade(...) raises TypeError when it
\* is passed a keyword its constructor does not declare
execute_trade(w, instruction) ==
    IF ~(ExecuteTradeKeywords \subseteq TradeInitParams)
    THEN [raised |-> TRUE, w |-> w, trade |-> NoTrade]
    ELSE LET trade == FillTrade(NewTrade(instruction.symbol,
                                         instruction.direction,
                                         instruction.quantity,
                                         instruction.order_type,
                                         instruction.strategy,
                                         instruction.price), w.next_id)
             w1 == [w EXCEPT !.next_id = w.next_id + 1]
             w2 == _update_position(w1, instruction.strategy, trade)
             w3 == _record_in_hierarchy_ledgers(w2, instruction.strategy, trade)
         IN  [raised |-> FALSE, w |-> w3, trade |-> trade]

\* OrderManagementSystem.submit_order: the loop over order.trade_instructions
RECURSIVE SubmitLoop(_, _, _)
SubmitLoop(w, instrs, executed) ==
    IF instrs = <<>>
    THEN [outcome |-> "OK", w |-> w, executed_trades |-> executed,
          order_status |-> FILLED]
    ELSE LET e == execute_trade(w, Head(instrs))
         IN  IF e.raised
             THEN [outcome |-> "TypeError", w |-> e.w,
                   executed_trades |-> <<>>, order_status |-> SUBMITTED]
             ELSE SubmitLoop(e.w, Tail(instrs), Append(executed, e.trade))

submit_order(w, instrs) == SubmitLoop(w, instrs, <<>>)

(***************************************************************************)
(* Operations                                                              *)
(***************************************************************************)
SetWorld(w) ==
    /\ positions' = w.positions
    /\ ledger' = w.ledger
    /\ trades' = w.trades
    /\ clock' = w.clock
    /\ next_id' = w.next_id

\* a mutant of PlaceOrder: a failed order is entered in the strategy's ledger
PlaceOrder_recording(s, symbol, action, quantity, order_type, price) ==
    LET c == create_order(positions, s, symbol, action, quantity, order_type,
                          price)
        call == [NoCall EXCEPT !.op = "place_order", !.strategy = s,
                               !.symbol = symbol, !.action = action,
                               !.quantity = quantity,
                               !.order_type = order_type, !.price = price,
                               !.current_qty =
                                   get_position(positions, s, symbol).quantity,
                               !.instructions = c.instructions]
    IN  /\ IF c.outcome # "OK"
           THEN /\ last' = [call EXCEPT !.outcome = c.outcome,
                                        !.raised_at = c.raised_at,
                                        !.reason = c.reason,
                                        !.order_status = c.order_status]
                /\ ledger' = [ledger EXCEPT ![s] =
                       Append(@, NewTrade(symbol, action, quantity, order_type,
                                          s, price))]
                /\ UNCHANGED <<positions, trades, clock, next_id>>
           ELSE LET r == submit_order(World, c.instructions)
                IN  /\ last' = [call EXCEPT
                                  !.outcome = r.outcome,
                                  !.raised_at = IF r.outcome = "OK" THEN None
                                                ELSE "Trade.__init__",
                                  !.order_status = r.order_status,
                                  !.executed_trades = r.executed_trades]
                    /\ SetWorld(r.w)
        /\ trade_rules' = IF c.raised_at \in {"action", "quantity"}
                          THEN trade_rules
                          ELSE policies_after_aggregate(s, trade_rules)
        /\ UNCHANGED <<portfolio, fund, trade_account, nrules, capital,
                       systems, strategy_id>>

\* Strategy.place_order
PlaceOrder(s, symbol, action, quantity, order_type, price) ==
    LET c == create_order(positions, s, symbol, action, quantity, order_type,
                          price)
        call == [NoCall EXCEPT !.op = "place_order", !.strategy = s,
                               !.symbol = symbol, !.action = action,
                               !.quantity = quantity,
                               !.order_type = order_type, !.price = price,
                               !.current_qty =
                                   get_position(positions, s, symbol).quantity,
                               !.instructions = c.instructions]
    IN  /\ IF c.outcome # "OK"
           THEN /\ last' = [call EXCEPT !.outcome = c.outcome,
                                        !.raised_at = c.raised_at,
                                        !.reason = c.reason,
                                        !.order_status = c.order_status]
                /\ UNCHANGED <<positions, ledger, trades, clock, next_id>>
           ELSE LET r == submit_order(World, c.instructions)
                IN  /\ last' = [call EXCEPT
                                  !.outcome = r.outcome,
                                  !.raised_at = IF r.outcome = "OK" THEN None
                                                ELSE "Trade.__init__",
                                  !.order_status = r.order_status,
                                  !.executed_trades = r.executed_trades]
                    /\ SetWorld(r.w)
        /\ trade_rules' = IF c.raised_at \in {"action", "quantity"}
                          THEN trade_rules
                          ELSE policies_after_aggregate(s, trade_rules)
        /\ UNCHANGED <<portfolio, fund, trade_account, nrules, capital,
                       systems, strategy_id>>

\* Strategy.place_trade, lines 194-198: the action a direction is mapped to
place_trade_action(direction) ==
    IF direction \in {BUY, BUY_TO_COVER} THEN "BUY" ELSE "SELL"

\* Strategy.place_trade(symbol, direction, quantity, trade_type, price): the
\* call of place_order and the trade returned (NoTrade stands for None)
PlaceTrade(s, symbol, direction, quantity, trade_type, price) ==
    LET action == place_trade_action(direction)
        c == create_order(positions, s, symbol, action, quantity, trade_type,
                          price)
        call == [NoCall EXCEPT !.op = "place_trade", !.strategy = s,
                               !.symbol = symbol, !.direction = direction,
                               !.action = action, !.quantity = quantity,
                               !.order_type = trade_type, !.price = price,
                               !.current_qty =
                                   get_position(positions, s, symbol).quantity,
                               !.instructions = c.instructions]
    IN  /\ IF c.outcome # "OK"
           THEN /\ last' = [call EXCEPT !.outcome = c.outcome,
                                        !.raised_at = c.raised_at,
                                        !.reason = c.reason,
                                        !.order_status = c.order_status]
                /\ UNCHANGED <<positions, ledger, trades, clock, next_id>>
           ELSE LET r == submit_order(World, c.instructions)
                IN  /\ last' = [call EXCEPT
                                  !.outcome = r.outcome,
                                  !.raised_at = IF r.outcome = "OK" THEN None
                                                ELSE "Trade.__init__",
                                  !.order_status = r.order_status,
                                  !.executed_trades = r.executed_trades,
                                  !.trade =
                                      IF r.outcome = "OK"
                                         /\ r.executed_trades # <<>>
                                      THEN r.executed_trades[1] ELSE NoTrade]
                    /\ SetWorld(r.w)
        /\ trade_rules' = IF c.raised_at \in {"action", "quantity"}
                          THEN trade_rules
                          ELSE policies_after_aggregate(s, trade_rules)
        /\ UNCHANGED <<portfolio, fund, trade_account, nrules, capital,
                       systems, strategy_id>>

\* a direct call of TradeManagementSystem._update_position(strategy, trade)
UpdatePosition(s, trade) ==
    /\ trade.strategy = s
    /\ trade.trade_id = next_id
    /\ SetWorld(_update_position([World EXCEPT !.next_id = next_id + 1],
                                 s, trade))
    /\ last' = [NoCall EXCEPT !.op = "_update_position", !.strategy = s,
                              !.symbol = trade.symbol, !.trade = trade,
                              !.outcome = "OK"]
    /\ UNCHANGED <<portfolio, fund, trade_account, trade_rules, nrules,
                   capital, systems, strategy_id>>

\* a direct call of
\* TradeManagementSystem._record_in_hierarchy_ledgers(strategy, trade)
RecordInHierarchyLedgers(s, trade) ==
    /\ trade.strategy = s
    /\ trade.trade_id = next_id
    /\ SetWorld(_record_in_hierarchy_ledgers(
                    [World EXCEPT !.next_id = next_id + 1], s, trade))
    /\ last' = [NoCall EXCEPT !.op = "_record_in_hierarchy_ledgers",
                              !.strategy = s, !.symbol = trade.symbol,
                              !.trade = trade, !.outcome = "OK"]
    /\ UNCHANGED <<portfolio, fund, trade_account, trade_rules, nrules,
                   capital, systems, strategy_id>>

\* level.trade_rules.<field> = value on an existing portfolio or fund
SetRule(level, rules) ==
    /\ level = "P1" => \E s \in Strategies : portfolio[s] # None
    /\ level = "F1" => fund # None
    /\ rules # trade_rules[level]
    /\ trade_rules' = [trade_rules EXCEPT ![level] = rules]
    /\ nrules' = nrules + 1
    /\ last' = [NoCall EXCEPT !.op = "set_rule", !.outcome = "OK"]
    /\ UNCHANGED <<portfolio, fund, trade_account, positions, ledger, trades,
                   clock, next_id, capital, systems, strategy_id>>

\* rules = self._aggregate_rules(strategy), as create_order computes it for
\* each order
AggregateRules(s) ==
    /\ last' = [NoCall EXCEPT !.op = "_aggregate_rules", !.strategy = s,
                              !.rules = _aggregate_rules(s), !.outcome = "OK"]
    /\ trade_rules' = policies_after_aggregate(s, trade_rules)
    /\ UNCHANGED <<portfolio, fund, trade_account, positions, ledger, trades,
                   clock, next_id, nrules, capital, systems, strategy_id>>

(***************************************************************************)
(* Capital of the hierarchy built through the factory methods: the fund    *)
(* F1 registered in the account, the portfolios registered in the fund,    *)
(* and the strategies registered in each portfolio, each under its one     *)
(* key "id:name"                                                           *)
(***************************************************************************)
PortfolioIds == {"P1", "P2"}
StrategyIds == {"S1"}
Amounts == 1..MaxCapital

Absent == [exists |-> FALSE, balance |-> 0]
Registered(balance) == [exists |-> TRUE, balance |-> balance]

\* TradeAccount.__init__: funds = {}
NoCapital ==
    [fund |-> Absent,
     portfolios |-> [p \in PortfolioIds |-> Absent],
     strategies |-> [k \in PortfolioIds \X StrategyIds |-> Absent]]

RECURSIVE SumBalances(_, _)
SumBalances(children, keys) ==
    IF keys = {} THEN 0
    ELSE LET k == CHOOSE x \in keys : TRUE
         IN  (IF children[k].exists THEN children[k].balance ELSE 0)
             + SumBalances(children, keys \ {k})

\* Fund.allocated_balance and Fund.cash_balance
fund_allocated_balance(c) == SumBalances(c.portfolios, PortfolioIds)
fund_cash_balance(c) == c.fund.balance - fund_allocated_balance(c)

\* Portfolio.allocated_balance and Portfolio.cash_balance
portfolio_allocated_balance(c, p) ==
    SumBalances(c.strategies, {p} \X StrategyIds)
portfolio_cash_balance(c, p) ==
    c.portfolios[p].balance - portfolio_allocated_balance(c, p)

\* the strategies of a portfolio that leaves the hierarchy, or of a new one
WithoutStrategies(strategies, ps) ==
    [k \in PortfolioIds \X StrategyIds |->
        IF k[1] \in ps THEN Absent ELSE strategies[k]]

\* TradeAccount.create_fund: a new Fund under the key, with no portfolios
create_fund(c, balance) ==
    [fund |-> Registered(balance),
     portfolios |-> [p \in PortfolioIds |-> Absent],
     strategies |-> WithoutStrategies(c.strategies, PortfolioIds)]

\* TradeAccount.update_fund(fund_id, fund_balance = balance)
update_fund(c, balance) ==
    IF ~c.fund.exists THEN [raised |-> TRUE, c |-> c]
    ELSE [raised |-> FALSE, c |-> [c EXCEPT !.fund.balance = balance]]

\* TradeAccount.remove_fund
remove_fund(c) ==
    IF c.fund.exists THEN NoCapital ELSE c

\* a mutant of over_fund_cash: the allocation may not use the last of the cash
reaches_fund_cash(c, amount) == amount >= fund_cash_balance(c)

\* fund.py lines 94 and 145: the amount asked is more than the cash of the fund
over_fund_cash(c, amount) == amount > fund_cash_balance(c)

\* Fund.create_portfolio: a new Portfolio under the key, with no strategies
create_portfolio(c, p, balance) ==
    IF over_fund_cash(c, balance) THEN [raised |-> TRUE, c |-> c]
    ELSE [raised |-> FALSE,
          c |-> [c EXCEPT !.portfolios[p] = Registered(balance),
                          !.strategies = WithoutStrategies(@, {p})]]

\* Fund.update_portfolio(portfolio_id, portfolio_balance = balance)
update_portfolio(c, p, balance) ==
    IF ~c.portfolios[p].exists THEN [raised |-> TRUE, c |-> c]
    ELSE IF over_fund_cash(c, balance - c.portfolios[p].balance)
    THEN [raised |-> TRUE, c |-> c]
    ELSE [raised |-> FALSE, c |-> [c EXCEPT !.portfolios[p].balance = balance]]

\* Fund.remove_portfolio
remove_portfolio(c, p) ==
    IF c.portfolios[p].exists
    THEN [c EXCEPT !.portfolios[p] = Absent,
                   !.strategies = WithoutStrategies(@, {p})]
    ELSE c

\* Strategy.__init__ with a portfolio: registers itself under its key
new_strategy(c, p, s, balance) ==
    [c EXCEPT !.strategies[<<p, s>>] = Registered(balance)]

\* Portfolio.update_strategy(strategy_id, strategy_balance = balance)
update_strategy(c, p, s, balance) ==
    IF ~c.strategies[<<p, s>>].exists THEN [raised |-> TRUE, c |-> c]
    ELSE IF balance - c.strategies[<<p, s>>].balance > portfolio_cash_balance(c, p)
    THEN [raised |-> TRUE, c |-> c]
    ELSE [raised |-> FALSE,
          c |-> [c EXCEPT !.strategies[<<p, s>>].balance = balance]]

\* Portfolio.remove_strategy
remove_strategy(c, p, s) == [c EXCEPT !.strategies[<<p, s>>] = Absent]

\* one call on the hierarchy: the capital it leaves and the record of it
CapitalCall(op, child, balance, c, raised) ==
    /\ capital' = c
    /\ last' = [NoCall EXCEPT !.op = op, !.child = child, !.balance = balance,
                              !.outcome = IF raised THEN "ValueError" ELSE "OK"]
    /\ UNCHANGED <<portfolio, fund, trade_account, trade_rules, positions,
                   ledger, trades, clock, next_id, nrules, systems,
                   strategy_id>>

CreateFund ==
    \E b \in Amounts :
        CapitalCall("create_fund", "F1", b, create_fund(capital, b), FALSE)

UpdateFund ==
    \E b \in Amounts :
        LET r == update_fund(capital, b)
        IN  CapitalCall("update_fund", "F1", b, r.c, r.raised)

RemoveFund ==
    CapitalCall("remove_fund", "F1", 0, remove_fund(capital), FALSE)

CreatePortfolio ==
    /\ capital.fund.exists
    /\ \E p \in PortfolioIds, b \in Amounts :
        LET r == create_portfolio(capital, p, b)
        IN  CapitalCall("create_portfolio", p, b, r.c, r.raised)

UpdatePortfolio ==
    /\ capital.fund.exists
    /\ \E p \in PortfolioIds, b \in Amounts :
        LET r == update_portfolio(capital, p, b)
        IN  CapitalCall("update_portfolio", p, b, r.c, r.raised)

RemovePortfolio ==
    /\ capital.fund.exists
    /\ \E p \in PortfolioIds :
        CapitalCall("remove_portfolio", p, 0, remove_portfolio(capital, p), FALSE)

NewStrategy ==
    \E p \in PortfolioIds, s \in StrategyIds, b \in Amounts :
        /\ capital.portfolios[p].exists
        /\ CapitalCall("Strategy", p, b, new_strategy(capital, p, s, b), FALSE)

UpdateStrategy ==
    \E p \in PortfolioIds, s \in StrategyIds, b \in Amounts :
        /\ capital.portfolios[p].exists
        /\ LET r == update_strategy(capital, p, s, b)
           IN  CapitalCall("update_strategy", p, b, r.c, r.raised)

RemoveStrategy ==
    \E p \in PortfolioIds, s \in StrategyIds :
        /\ capital.portfolios[p].exists
        /\ CapitalCall("remove_strategy", p, 0,
                       remove_strategy(capital, p, s), FALSE)


(***************************************************************************)
(* OMS and TMS of the objects of a hierarchy (src/core/oms_tms_mixin.py).  *)
(* An instance of OrderManagementSystem or TradeManagementSystem is named  *)
(* by the object whose constructor created it.                             *)
(***************************************************************************)
AccountObjects == {"A1"}
FundObjects == {"F1", "F2"}
PortfolioObjects == {"P1", "P2"}
StrategyObjects == {"S1", "S2"}
TreeObjects ==
    AccountObjects \cup FundObjects \cup PortfolioObjects \cup StrategyObjects

\* an object not constructed yet; balance is the fund_balance,
\* portfolio_balance or strategy_balance it is constructed with, registered
\* tells whether its parent holds it in its funds, portfolios or strategies
Unbuilt == [exists |-> FALSE, parent |-> None, _oms |-> None, _tms |-> None,
            _is_oms_tms_owner |-> FALSE, balance |-> 0, registered |-> FALSE]
NoSystems == [x \in TreeObjects |-> Unbuilt]

\* a mutant of _initialize_or_inherit_systems: every object creates its own
_initialize_systems(sys, self, parent) ==
    [sys[self] EXCEPT !.exists = TRUE, !.parent = parent, !._oms = self,
                      !._tms = self, !._is_oms_tms_owner = TRUE]

\* OMSTMSMixin._initialize_or_inherit_systems, with the parent reference the
\* constructor stores; the other attributes of self stay as they are
_initialize_or_inherit_systems(sys, self, parent) ==
    IF parent # None
    THEN [sys[self] EXCEPT !.exists = TRUE, !.parent = parent,
                           !._oms = sys[parent]._oms,
                           !._tms = sys[parent]._tms,
                           !._is_oms_tms_owner = FALSE]
    ELSE [sys[self] EXCEPT !.exists = TRUE, !.parent = parent, !._oms = self,
                           !._tms = self, !._is_oms_tms_owner = TRUE]

\* __init__ of an object: the balance is stored, then the systems are
\* created or inherited; registered is set by the code that enters the
\* object in the dictionary of its parent
constructed(sys, self, parent, balance, registered) ==
    [sys EXCEPT ![self] =
        [_initialize_or_inherit_systems(
             [sys EXCEPT ![self].balance = balance], self, parent)
         EXCEPT !.registered = registered]]

\* the balances funds and portfolios are constructed with: the least, and
\* one above it
ConstructionBalances == {1, MaxCapital}

\* the constructor of an object, called directly or by the factory method of
\* its parent
Construct(op, self, parent, balance, registered) ==
    /\ ~systems[self].exists
    /\ parent # None => systems[parent].exists
    /\ systems' = constructed(systems, self, parent, balance, registered)
    /\ last' = [NoCall EXCEPT !.op = op, !.child = self, !.parent = parent,
                              !.balance = balance, !.outcome = "OK"]
    /\ UNCHANGED <<portfolio, fund, trade_account, trade_rules, positions,
                   ledger, trades, clock, next_id, nrules, capital,
                   strategy_id>>

\* TradeAccount(account_id, account_name)
ConstructAccount ==
    \E a \in AccountObjects : Construct("TradeAccount", a, None, 0, FALSE)

\* Fund(fund_id, fund_name, fund_balance, trade_account): the account does
\* not enter the fund in account.funds
ConstructFund ==
    \E f \in FundObjects, a \in AccountObjects \cup {None}, b \in ConstructionBalances :
        Construct("Fund", f, a, b, FALSE)

\* account.create_fund(fund_id, fund_name, fund_balance)
FactoryFund ==
    \E f \in FundObjects, a \in AccountObjects, b \in ConstructionBalances :
        Construct("create_fund", f, a, b, TRUE)

\* Portfolio(portfolio_id, portfolio_name, portfolio_balance, fund): the
\* fund does not enter the portfolio in fund.portfolios
ConstructPortfolio ==
    \E p \in PortfolioObjects, f \in FundObjects \cup {None}, b \in ConstructionBalances :
        Construct("Portfolio", p, f, b, FALSE)

\* Fund.allocated_balance and Fund.cash_balance: fund_balance less the
\* balances of the portfolios in fund.portfolios
fund_cash_of(sys, f) ==
    sys[f].balance
      - SumBalances([p \in PortfolioIds |->
                        IF /\ sys[p].exists
                           /\ sys[p].registered
                           /\ sys[p].parent = f
                        THEN Registered(sys[p].balance) ELSE Absent],
                    PortfolioIds)

\* fund.create_portfolio(portfolio_id, portfolio_name, portfolio_balance):
\* ValueError, and no Portfolio constructed, when the balance is above the
\* cash of the fund; else the portfolio is constructed and entered in
\* fund.portfolios
FactoryPortfolio ==
    \E p \in PortfolioObjects, f \in FundObjects, b \in ConstructionBalances :
        IF systems[f].exists /\ b > fund_cash_of(systems, f)
        THEN /\ ~systems[p].exists
             /\ last' = [NoCall EXCEPT !.op = "create_portfolio",
                                       !.child = p, !.parent = f,
                                       !.balance = b,
                                       !.outcome = "ValueError"]
             /\ UNCHANGED <<portfolio, fund, trade_account, trade_rules,
                            positions, ledger, trades, clock, next_id,
                            nrules, capital, systems, strategy_id>>
        ELSE Construct("create_portfolio", p, f, b, TRUE)

\* Strategy(strategy_id, strategy_name, strategy_balance, portfolio): the
\* strategy enters itself in portfolio.strategies
ConstructStrategy ==
    \E s \in StrategyObjects, p \in PortfolioObjects \cup {None} :
        Construct("Strategy", s, p, StrategyBalance, p # None)

(***************************************************************************)
(* Positions a strategy holds when it places an order: the positions that  *)
(* _update_position leaves after one fill, or after a buy and a sale of    *)
(* the same quantity (an existing position that is flat).                  *)
(***************************************************************************)
LongPosition(s, symbol, q) ==
    update_from_trade(NewPosition(1), Fill(s, symbol, BUY, q, 1, 1), 1)

ShortPosition(s, symbol, q) ==
    update_from_trade(NewPosition(1), Fill(s, symbol, SELL_SHORT, q, 1, 1), 1)

FlatPosition(s, symbol) ==
    update_from_trade(LongPosition(s, symbol, 1), Fill(s, symbol, SELL, 1, 1, 2), 2)

HeldPositions(s, symbol) ==
    {NoPosition, FlatPosition(s, symbol)}
    \cup { LongPosition(s, symbol, q) : q \in Quantities }
    \cup { ShortPosition(s, symbol, q) : q \in Quantities }

\* nothing registered, constructed, recorded or called so far
InitObjects ==
    /\ capital = NoCapital
    /\ systems = NoSystems
    /\ ledger = [o \in Owners |-> <<>>]
    /\ trades = [s \in Strategies |-> <<>>]
    /\ nrules = 0
    /\ last = NoCall

\* and every Strategy object constructed with an id of its own
InitQuiet ==
    /\ InitObjects
    /\ strategy_id = [s \in Strategies |-> s]

(***************************************************************************)
(* Spec: orders of strategy S1 on the positions it holds, under the        *)
(* short-selling and direction policies of its portfolio and fund          *)
(***************************************************************************)
OrderTopologies ==
    { t \in Topologies : t.portfolio["S2"] = None /\ t.trade_account = None }

Init ==
    /\ InitHierarchy(OrderTopologies)
    /\ trade_rules = [l \in Levels |-> DefaultTradeRules]
    /\ \E a \in HeldPositions("S1", "AAPL") :
       \E other \in {<<"S1", "AAPL">>, <<"S1", "TSLA">>, <<"S2", "AAPL">>} :
          positions = [k \in Strategies \X Symbols |->
                         IF k = <<"S1", "AAPL">> THEN a
                         ELSE IF k = other THEN LongPosition(k[1], k[2], 1)
                         ELSE NoPosition]
    /\ clock = 3
    /\ next_id = 3
    /\ InitQuiet

Actions == {"BUY", "SELL", "HOLD"}

PlaceOrderS1 ==
    \E symbol \in Symbols, action \in Actions, quantity \in 0..MaxQty,
       price \in Prices :
        PlaceOrder("S1", symbol, action, quantity, MARKET, price)

SetShortRule ==
    /\ nrules < MaxRuleChanges
    /\ \E level \in Levels :
       \E r \in RuleSettings(trade_rules[level],
                             {"allow_short_selling", "allowed_directions"}) :
          SetRule(level, r)

Next == PlaceOrderS1 \/ SetShortRule

Spec == Init /\ [][Next]_vars


(***************************************************************************)
(* Claims checked under Spec                                               *)
(***************************************************************************)
IsOrder == last.op = "place_order"

\* the class each error is derived from: exceptions.py and class OrderRejected
ExceptionBases ==
    [k \in {"TradeComplianceError", "InsufficientFundsError", "OrderRejected",
            "ValueError", "TypeError", "AttributeError"} |-> "Exception"]

\* isinstance(error, kind), as an except clause for kind decides it
IsA(error, kind) ==
    \/ error = kind
    \/ error \in DOMAIN ExceptionBases /\ ExceptionBases[error] = kind

\* The levels whose policy binds a strategy, and the aggregate of their
\* policies as the specification states it (section 3)
LevelsAbove(s) ==
    IF portfolio[s] = None THEN {}
    ELSE {"P1"} \cup (IF fund # None THEN {"F1"} ELSE {})

ShortPermitted(s) ==
    \A l \in LevelsAbove(s) : trade_rules[l].allow_short_selling

DirectionsPermitted(s) ==
    { d \in AllDirections :
        \A l \in LevelsAbove(s) : d \in trade_rules[l].allowed_directions }

TypesPermitted(s) ==
    { t \in AllTradeTypes :
        \A l \in LevelsAbove(s) : t \in trade_rules[l].allowed_trade_types }

SymbolPermitted(s, y) ==
    /\ \A l \in LevelsAbove(s) : y \notin trade_rules[l].restricted_symbols
    /\ \A l \in LevelsAbove(s) :
          ~trade_rules[l].allowed_symbols.none
              => y \in trade_rules[l].allowed_symbols.symbols

MaxSingleTradePct(s) ==
    IF \E l \in LevelsAbove(s) : trade_rules[l].max_single_trade_pct < 100
    THEN CHOOSE m \in { trade_rules[l].max_single_trade_pct : l \in LevelsAbove(s) } :
           \A l \in LevelsAbove(s) : m <= trade_rules[l].max_single_trade_pct
    ELSE 100

MaxPositionPct(s) ==
    IF \E l \in LevelsAbove(s) : trade_rules[l].max_position_size_pct < 100
    THEN CHOOSE m \in { trade_rules[l].max_position_size_pct : l \in LevelsAbove(s) } :
           \A l \in LevelsAbove(s) : m <= trade_rules[l].max_position_size_pct
    ELSE 100

\* the <<direction, quantity>> pairs of a list of instructions
RECURSIVE Legs(_)
Legs(instrs) ==
    IF instrs = <<>> THEN <<>>
    ELSE <<<<Head(instrs).direction, Head(instrs).quantity>>>> \o Legs(Tail(instrs))

RECURSIVE SumQuantity(_)
SumQuantity(instrs) ==
    IF instrs = <<>> THEN 0 ELSE Head(instrs).quantity + SumQuantity(Tail(instrs))

\* the emission table of the specification (section 4.2)
ExpectedLegs(action, Q, q) ==
    IF action = "BUY"
    THEN IF q >= 0 THEN <<<<BUY, Q>>>>
         ELSE IF Q <= -q THEN <<<<BUY_TO_COVER, Q>>>>
         ELSE <<<<BUY_TO_COVER, -q>>, <<BUY, Q + q>>>>
    ELSE IF q > 0
         THEN IF Q <= q THEN <<<<SELL, Q>>>>
              ELSE <<<<SELL, q>>, <<SELL_SHORT, Q - q>>>>
         ELSE <<<<SELL_SHORT, Q>>>>

\* C1: with short selling permitted, create_order emits the instructions of
\* the emission table for the action, the quantity Q and the held quantity q:
\* one or two instructions, each of positive quantity, summing to Q.
C1_Emission ==
    (/\ IsOrder
     /\ last.action \in {"BUY", "SELL"}
     /\ last.quantity > 0
     /\ ShortPermitted(last.strategy))
    => /\ Legs(last.instructions)
            = ExpectedLegs(last.action, last.quantity, last.current_qty)
       /\ Len(last.instructions) \in {1, 2}
       /\ \A i \in 1..Len(last.instructions) :
            /\ last.instructions[i].quantity > 0
            /\ last.instructions[i].symbol = last.symbol
            /\ last.instructions[i].price = last.price
       /\ SumQuantity(last.instructions) = last.quantity

\* a buy larger than the short held was split into a cover and a buy
C1_Witness ==
    /\ IsOrder
    /\ last.action = "BUY"
    /\ last.current_qty < 0
    /\ Legs(last.instructions)
         = <<<<BUY_TO_COVER, -last.current_qty>>,
             <<BUY, last.quantity + last.current_qty>>>>

\* create_order returned the order (validation and the cash check passed)
Validated == IsOrder /\ last.order_status \in {"VALIDATED", SUBMITTED, FILLED}

\* C2: an order that passes validation and the cash check ends FILLED, with
\* one FILLED trade per instruction, filled in full at the instruction price.
C2_ValidatedOrderFills ==
    Validated
    => /\ last.outcome = "OK"
       /\ last.order_status = FILLED
       /\ Len(last.executed_trades) = Len(last.instructions)
       /\ \A i \in 1..Len(last.instructions) :
            /\ last.executed_trades[i].status = FILLED
            /\ last.executed_trades[i].filled_quantity
                 = last.instructions[i].quantity
            /\ last.executed_trades[i].avg_fill_price
                 = last.instructions[i].price

\* place_order raised before the order was submitted
FailedBeforeSubmission(call) ==
    /\ call.op = "place_order"
    /\ call.outcome # "OK"
    /\ call.order_status \in {None, PENDING}

\* C3: a place_order that fails before submission leaves every position and
\* every trade list as it was.
C3_FailureChangesNothing ==
    [][FailedBeforeSubmission(last')
         => /\ positions' = positions
            /\ ledger' = ledger
            /\ trades' = trades]_vars

\* an order was rejected on the second instruction of a split, while the
\* strategy held positions
C3_Witness ==
    /\ FailedBeforeSubmission(last)
    /\ Len(last.instructions) = 2
    /\ last.reason = "direction"
    /\ last.instructions[1].direction \in DirectionsPermitted(last.strategy)
    /\ positions[<<last.strategy, last.symbol>>].quantity # 0

\* free cash of a strategy at entry prices: capital - sum |q| x avg_entry
FreeCashAtEntry(s) ==
    LET held(y) == RMul(RInt(Abs(positions[<<s, y>>].quantity)),
                        positions[<<s, y>>].avg_entry_price)
    IN  RSub(RSub(RInt(StrategyBalance), held("AAPL")), held("TSLA"))

\* the order reached the cash check of create_order
ReachedCashCheck ==
    /\ IsOrder
    /\ last.raised_at \in {None, "get_market_value", "_check_sufficient_funds",
                           "Trade.__init__"}

\* C8: create_order fails with insufficient funds exactly when the cost of
\* its BUY and BUY_TO_COVER instructions exceeds the free cash at entry
\* prices.
C8_InsufficientFundsExactly ==
    ReachedCashCheck
    => (last.outcome = "InsufficientFundsError"
          <=> /\ ~TotalCost(last.instructions).raised
              /\ RLess(FreeCashAtEntry(last.strategy),
                       RInt(TotalCost(last.instructions).value)))

\* the sale asks for a short that the aggregated policy forbids
ForbiddenShort(call) ==
    /\ call.op = "place_order"
    /\ call.action = "SELL"
    /\ call.quantity > 0
    /\ ~ShortPermitted(call.strategy)
    /\ \/ call.current_qty = 0
       \/ call.current_qty > 0 /\ call.quantity > call.current_qty

\* C9: with allow_short_selling false in the aggregate, a SELL on a flat or
\* absent position and a SELL of more than the long held are rejected with
\* nothing executed and the position unchanged.
C9_ShortGate ==
    [][ForbiddenShort(last')
         => /\ last'.outcome = "OrderRejected"
            /\ last'.raised_at = "_determine_trade_directions"
            /\ last'.executed_trades = <<>>
            /\ positions' = positions
            /\ ledger' = ledger]_vars

\* a sale of more than the long held was rejected by the gate
C9_Witness ==
    /\ ForbiddenShort(last)
    /\ last.current_qty > 0
    /\ last.outcome = "OrderRejected"

(***************************************************************************)
(* SpecLedger: filled trades recorded through                              *)
(* _record_in_hierarchy_ledgers, in every shape of the hierarchy           *)
(***************************************************************************)
NoPositions == [k \in Strategies \X Symbols |-> NoPosition]

InitLedger ==
    /\ InitHierarchy(Topologies)
    /\ trade_rules = [l \in Levels |-> DefaultTradeRules]
    /\ positions = NoPositions
    /\ clock = 1
    /\ next_id = 1
    /\ InitQuiet

RecordFill ==
    /\ next_id <= MaxRecords
    /\ \E s \in Strategies, direction \in {BUY, SELL}, quantity \in Quantities :
         RecordInHierarchyLedgers(
             s, Fill(s, "AAPL", direction, quantity, 1, next_id))

NextLedger == RecordFill

SpecLedger == InitLedger /\ [][NextLedger]_vars

\* the owners of the ledgers above and including a strategy
Chain(s) ==
    {s} \cup (IF portfolio[s] = None THEN {}
              ELSE {"P1"} \cup
                   (IF fund = None THEN {}
                    ELSE {"F1"} \cup
                         (IF trade_account = None THEN {} ELSE {"A1"})))

Occurrences(l, t) == Cardinality({ i \in 1..Len(l) : l[i] = t })

\* C4: a filled trade is appended exactly once to the ledger of its strategy
\* and of each existing ancestor (portfolio, fund, account): each of these
\* grows by one, and no other ledger changes.
C4_LedgerCascade ==
    [][last'.op = "_record_in_hierarchy_ledgers"
         => \A o \in Owners :
              IF o \in Chain(last'.strategy)
              THEN /\ ledger'[o] = Append(ledger[o], last'.trade)
                   /\ Len(ledger'[o]) = Len(ledger[o]) + 1
                   /\ Occurrences(ledger'[o], last'.trade) = 1
              ELSE ledger'[o] = ledger[o]]_vars

\* a trade was recorded through a chain of four levels while the ledger of
\* a strategy outside the chain held an earlier trade
C4_Witness ==
    /\ last.op = "_record_in_hierarchy_ledgers"
    /\ Cardinality(Chain(last.strategy)) = 4
    /\ ledger["A1"] = <<last.trade>>
    /\ \E s \in Strategies \ {last.strategy} :
         /\ portfolio[s] = None
         /\ Len(ledger[s]) = 1


(***************************************************************************)
(* SpecRules: orders of S1 under the direction, order-type and symbol      *)
(* policies of its portfolio and fund                                      *)
(***************************************************************************)
InitRules ==
    /\ InitHierarchy(OrderTopologies)
    /\ trade_rules = [l \in Levels |-> DefaultTradeRules]
    /\ \E a \in {NoPosition, LongPosition("S1", "AAPL", 1)} :
          positions = [NoPositions EXCEPT ![<<"S1", "AAPL">>] = a]
    /\ clock = 3
    /\ next_id = 3
    /\ InitQuiet

PlaceTypedOrder ==
    \E symbol \in Symbols, action \in {"BUY", "SELL"},
       quantity \in Quantities, order_type \in {MARKET, LIMIT} :
        PlaceOrder("S1", symbol, action, quantity, order_type, 1)

SetSymbolRule ==
    /\ nrules < MaxPolicyChanges
    /\ \E level \in Levels :
       \E r \in RuleSettings(trade_rules[level],
                             {"allowed_directions", "allowed_trade_types",
                              "allowed_symbols", "restricted_symbols"}) :
          SetRule(level, r)

NextRules == PlaceTypedOrder \/ SetSymbolRule

SpecRules == InitRules /\ [][NextRules]_vars

\* the instruction is one the aggregated policy permits
Conforms(s, instruction) ==
    /\ instruction.direction \in DirectionsPermitted(s)
    /\ instruction.order_type \in TypesPermitted(s)
    /\ SymbolPermitted(s, instruction.symbol)

FilledConforms(s, trade) ==
    /\ trade.direction \in DirectionsPermitted(s)
    /\ trade.trade_type \in TypesPermitted(s)
    /\ SymbolPermitted(s, trade.symbol)

RuleReasons ==
    {"direction", "trade_type", "allowed_symbols", "restricted_symbols",
     "max_single_trade_pct", "max_position_size_pct"}

\* C5: an order with an instruction whose direction or order type is outside
\* the aggregated allowed sets, or whose symbol is blacklisted or outside the
\* aggregated whitelist, is rejected as a whole; no trade of an order is
\* filled against these rules.
C5_RulesGate ==
    IsOrder
    => /\ (\E i \in 1..Len(last.instructions) :
              ~Conforms(last.strategy, last.instructions[i]))
          => /\ FailedBeforeSubmission(last)
             /\ last.reason \in RuleReasons
             /\ last.executed_trades = <<>>
       /\ Validated
          => \A i \in 1..Len(last.instructions) :
                Conforms(last.strategy, last.instructions[i])
       /\ \A i \in 1..Len(last.executed_trades) :
             FilledConforms(last.strategy, last.executed_trades[i])

\* an order for a symbol that only the fund blacklists was rejected
C5_Witness ==
    /\ FailedBeforeSubmission(last)
    /\ last.reason = "restricted_symbols"
    /\ fund # None
    /\ last.symbol \notin trade_rules["P1"].restricted_symbols
    /\ last.symbol \in trade_rules["F1"].restricted_symbols


(***************************************************************************)
(* SpecLimits: orders of S1 under the size limits of its portfolio and     *)
(* fund                                                                    *)
(***************************************************************************)
InitLimits ==
    /\ InitHierarchy(OrderTopologies)
    /\ trade_rules = [l \in Levels |-> DefaultTradeRules]
    /\ \E a \in HeldPositions("S1", "AAPL") :
          positions = [NoPositions EXCEPT ![<<"S1", "AAPL">>] = a]
    /\ clock = 3
    /\ next_id = 3
    /\ InitQuiet

PlaceSizedOrder ==
    \E action \in {"BUY", "SELL"}, quantity \in Quantities, price \in Prices :
        PlaceOrder("S1", "AAPL", action, quantity, MARKET, price)

SetLimitRule ==
    /\ nrules < MaxRuleChanges
    /\ \E level \in Levels :
       \E r \in RuleSettings(trade_rules[level],
                             {"max_single_trade_pct", "max_position_size_pct"}) :
          SetRule(level, r)

NextLimits == PlaceSizedOrder \/ SetLimitRule

SpecLimits == InitLimits /\ [][NextLimits]_vars

\* quantity x price of instruction i, as a percentage of the portfolio's
\* capital, is strictly above / exactly at the aggregated single-trade limit
TradeOver(i) ==
    last.instructions[i].quantity * last.instructions[i].price * 100
        > MaxSingleTradePct(last.strategy) * PortfolioBalance

TradeAtLimit(i) ==
    last.instructions[i].quantity * last.instructions[i].price * 100
        = MaxSingleTradePct(last.strategy) * PortfolioBalance

\* C6: for a strategy linked to a portfolio, an order is rejected for a rule
\* when the value of any of its instructions is strictly above the
\* aggregated max-single-trade percentage of the portfolio's capital, and is
\* not rejected for this rule when no instruction is above it.
C6_SingleTradeLimit ==
    (IsOrder /\ portfolio[last.strategy] # None /\ last.instructions # <<>>)
    => /\ (\E i \in 1..Len(last.instructions) : TradeOver(i))
          => /\ FailedBeforeSubmission(last)
             /\ last.reason \in RuleReasons
       /\ last.reason = "max_single_trade_pct"
          => \E i \in 1..Len(last.instructions) : TradeOver(i)

\* an order whose value is exactly the limit passed validation
C6_Witness ==
    /\ Validated
    /\ portfolio[last.strategy] # None
    /\ MaxSingleTradePct(last.strategy) < 100
    /\ \E i \in 1..Len(last.instructions) : TradeAtLimit(i)

\* the signed quantity held after the first i instructions of the order
RECURSIVE ResultingQty(_, _, _)
ResultingQty(q, instrs, i) ==
    IF i = 0 THEN q
    ELSE ResultingQty(q, instrs, i - 1)
         + (IF instrs[i].direction \in {BUY, BUY_TO_COVER}
            THEN instrs[i].quantity ELSE -instrs[i].quantity)

PositionOver(i) ==
    Abs(ResultingQty(last.current_qty, last.instructions, i))
        * last.instructions[i].price * 100
        > MaxPositionPct(last.strategy) * PortfolioBalance

\* C7: for a strategy linked to a portfolio, an order is rejected for a rule
\* when the position an instruction would leave (counted from zero when no
\* position exists, from the quantity the first instruction leaves for the
\* second of a split), valued at the instruction price, is above the
\* aggregated max-position percentage of the portfolio's capital.
C7_PositionLimit ==
    (/\ IsOrder
     /\ portfolio[last.strategy] # None
     /\ \E i \in 1..Len(last.instructions) : PositionOver(i))
    => /\ FailedBeforeSubmission(last)
       /\ last.reason \in RuleReasons


(***************************************************************************)
(* SpecPosition: fills applied to the position of S1 in AAPL through       *)
(* _update_position                                                        *)
(***************************************************************************)
InitPosition ==
    /\ portfolio = [s \in Strategies |-> None]
    /\ fund = None
    /\ trade_account = None
    /\ trade_rules = [l \in Levels |-> DefaultTradeRules]
    /\ positions = NoPositions
    /\ clock = 1
    /\ next_id = 1
    /\ InitQuiet

FillS1 ==
    /\ clock <= MaxFills
    /\ \E direction \in AllDirections, quantity \in Quantities,
          price \in Prices :
         UpdatePosition(
             "S1", Fill("S1", "AAPL", direction, quantity, price, next_id))

NextPosition == FillS1

SpecPosition == InitPosition /\ [][NextPosition]_vars

\* the position the last fill was applied to
Filled == last.op = "_update_position"
PositionOf(call) == positions[<<call.strategy, call.symbol>>]

\* C10: a SELL fill of n at price x against a long position of average
\* entry e adds (x - e) * n to realized P&L and leaves e unchanged; a BUY of
\* Q at e on a new position followed by a SELL of Q at x therefore ends with
\* quantity 0 and realized P&L (x - e) * Q.
C10_LongClose ==
    [][(last'.op = "_update_position")
         => LET before == positions[<<last'.strategy, last'.symbol>>]
                after == positions'[<<last'.strategy, last'.symbol>>]
                n == last'.trade.filled_quantity
                x == last'.trade.avg_fill_price
            IN  /\ (last'.trade.direction = SELL /\ before.quantity > 0)
                   => /\ after.realized_pnl
                           = RAdd(before.realized_pnl,
                                  RMul(RSub(RInt(x), before.avg_entry_price),
                                       RInt(n)))
                      /\ after.avg_entry_price = before.avg_entry_price
                      /\ after.quantity = before.quantity - n
                /\ (last'.trade.direction = BUY /\ ~before.exists)
                   => /\ after.quantity = n
                      /\ after.avg_entry_price = RInt(x)
                      /\ after.realized_pnl = RInt(0)
                /\ (/\ last'.trade.direction = SELL
                    /\ before.opened_at = clock - 1
                    /\ before.quantity = n
                    /\ last.op = "_update_position"
                    /\ last.trade.direction = BUY)
                   => /\ after.quantity = 0
                      /\ after.realized_pnl
                           = RInt((x - last.trade.avg_fill_price) * n)]_vars

\* a long position bought at two prices was sold in part at a price other
\* than its average entry
C10_Witness ==
    /\ Filled
    /\ last.trade.direction = SELL
    /\ Len(PositionOf(last).opening_trades) = 2
    /\ PositionOf(last).closing_trades = <<last.trade.trade_id>>
    /\ PositionOf(last).quantity > 0
    /\ PositionOf(last).avg_entry_price[2] # 1
    /\ PositionOf(last).realized_pnl # RInt(0)

\* C11: a short opened by SELL_SHORT of Q at e on a new position and fully
\* covered by BUY_TO_COVER of Q at x has realized P&L (e - x) * Q after the
\* cover.
C11_ShortCover ==
    [][(/\ last'.op = "_update_position"
        /\ last'.trade.direction = BUY_TO_COVER
        /\ last.op = "_update_position"
        /\ last.trade.direction = SELL_SHORT
        /\ last.symbol = last'.symbol
        /\ positions[<<last'.strategy, last'.symbol>>].opened_at = clock - 1
        /\ last'.trade.filled_quantity = last.trade.filled_quantity)
         => LET after == positions'[<<last'.strategy, last'.symbol>>]
            IN  /\ after.quantity = 0
                /\ after.realized_pnl
                     = RInt((last.trade.avg_fill_price
                               - last'.trade.avg_fill_price)
                            * last'.trade.filled_quantity)]_vars

\* C12: from a flat position, after opening fills all in one direction (all
\* BUY, or all SELL_SHORT) the average entry price is the sum of
\* quantity x price over the sum of quantity: the first fill sets it to the
\* fill price, and each further fill on the same side keeps
\* avg * |quantity| equal to the sum of quantity x price.
C12_WeightedAverage ==
    [][(/\ last'.op = "_update_position"
        /\ last'.trade.direction \in {BUY, SELL_SHORT})
         => LET before == positions[<<last'.strategy, last'.symbol>>]
                after == positions'[<<last'.strategy, last'.symbol>>]
                n == last'.trade.filled_quantity
                x == last'.trade.avg_fill_price
                same_side == IF last'.trade.direction = BUY
                             THEN before.quantity > 0 ELSE before.quantity < 0
            IN  /\ ~before.exists => after.avg_entry_price = RInt(x)
                /\ (before.exists /\ same_side)
                   => RMul(after.avg_entry_price, RInt(Abs(after.quantity)))
                        = RAdd(RMul(before.avg_entry_price,
                                    RInt(Abs(before.quantity))),
                               RInt(n * x))]_vars

\* C13: the two fills of an order that flips a position at price p leave
\* the new side opened at p: after the SELL that closes the long, the
\* SELL_SHORT of n at p leaves quantity -n and average entry p; after the
\* BUY_TO_COVER that closes the short, the BUY of n at p leaves quantity n
\* and average entry p.
C13_FlipOpensAtOrderPrice ==
    [][(/\ last'.op = "_update_position"
        /\ last.op = "_update_position"
        /\ last.symbol = last'.symbol
        /\ positions[<<last'.strategy, last'.symbol>>].quantity = 0
        /\ last'.trade.avg_fill_price = last.trade.avg_fill_price
        /\ \/ last.trade.direction = SELL /\ last'.trade.direction = SELL_SHORT
           \/ last.trade.direction = BUY_TO_COVER /\ last'.trade.direction = BUY)
         => LET before == positions[<<last'.strategy, last'.symbol>>]
                after == positions'[<<last'.strategy, last'.symbol>>]
                n == last'.trade.filled_quantity
            IN  /\ after.quantity
                     = (IF last'.trade.direction = BUY THEN n ELSE -n)
                /\ after.avg_entry_price = RInt(last'.trade.avg_fill_price)
                /\ after.realized_pnl = before.realized_pnl]_vars

(***************************************************************************)
(* SpecCapital: the factory, update and removal methods of the account,    *)
(* the fund and its portfolios, and the construction of strategies         *)
(***************************************************************************)
InitCapital ==
    /\ portfolio = [s \in Strategies |-> None]
    /\ fund = None
    /\ trade_account = None
    /\ trade_rules = [l \in Levels |-> DefaultTradeRules]
    /\ positions = NoPositions
    /\ clock = 1
    /\ next_id = 1
    /\ InitQuiet

NextCapital ==
    \/ CreateFund \/ UpdateFund \/ RemoveFund
    \/ CreatePortfolio \/ UpdatePortfolio \/ RemovePortfolio
    \/ NewStrategy \/ UpdateStrategy \/ RemoveStrategy

SpecCapital == InitCapital /\ [][NextCapital]_vars

\* C14: after any sequence of creations, balance changes and removals, the
\* fund and every portfolio have cash = capital - sum of the children's
\* capital >= 0.
C14_CashNeverNegative ==
    /\ capital.fund.exists
       => capital.fund.balance
            - SumBalances(capital.portfolios, PortfolioIds) >= 0
    /\ \A p \in PortfolioIds :
         capital.portfolios[p].exists
           => capital.portfolios[p].balance
                - SumBalances(capital.strategies, {p} \X StrategyIds) >= 0

\* the cash of the fund: its capital less the capital of its portfolios
FundCash(c) == c.fund.balance - SumBalances(c.portfolios, PortfolioIds)

\* C15 as stated: create_portfolio with capital above the cash of the fund
\* fails and changes nothing; with capital <= cash it registers the
\* portfolio and reduces the cash of the fund by exactly capital.
C15_CreatePortfolio ==
    [][last'.op = "create_portfolio"
         => IF last'.balance > FundCash(capital)
            THEN /\ last'.outcome = "ValueError"
                 /\ capital' = capital
            ELSE /\ last'.outcome = "OK"
                 /\ capital'.portfolios[last'.child]
                      = Registered(last'.balance)
                 /\ FundCash(capital') = FundCash(capital) - last'.balance]_vars

\* C15 amended: the same, the cash falling by exactly capital when no
\* portfolio is registered under the key already; a portfolio registered
\* under the key is replaced, and its capital returns to the cash.
C15_CreatePortfolioNewKey ==
    [][last'.op = "create_portfolio"
         => IF last'.balance > FundCash(capital)
            THEN /\ last'.outcome = "ValueError"
                 /\ capital' = capital
            ELSE /\ last'.outcome = "OK"
                 /\ capital'.portfolios[last'.child]
                      = Registered(last'.balance)
                 /\ \A p \in PortfolioIds \ {last'.child} :
                      capital'.portfolios[p] = capital.portfolios[p]
                 /\ FundCash(capital')
                      = FundCash(capital) - last'.balance
                        + (IF capital.portfolios[last'.child].exists
                           THEN capital.portfolios[last'.child].balance
                           ELSE 0)]_vars

\* a second portfolio took exactly the cash the first had left
C15_Witness ==
    /\ last.op = "create_portfolio"
    /\ last.outcome = "OK"
    /\ \A p \in PortfolioIds : capital.portfolios[p].exists
    /\ FundCash(capital) = 0

(***************************************************************************)
(* SpecAggregate: the policies of the portfolio and of the fund of S1      *)
(* change field by field, and the aggregate is computed as for an order on *)
(* the position S1 holds                                                   *)
(***************************************************************************)
RuleFields ==
    {"allow_short_selling", "allow_margin", "allow_options", "allow_futures",
     "max_position_size_pct", "max_single_trade_pct", "allowed_symbols",
     "restricted_symbols", "allowed_trade_types", "allowed_directions"}

InitAggregate ==
    /\ InitHierarchy(OrderTopologies)
    /\ trade_rules = [l \in Levels |-> DefaultTradeRules]
    /\ \E a \in HeldPositions("S1", "AAPL") :
          positions = [NoPositions EXCEPT ![<<"S1", "AAPL">>] = a]
    /\ clock = 3
    /\ next_id = 3
    /\ InitQuiet

SetAnyRule ==
    /\ nrules < MaxPolicyChanges
    /\ \E level \in Levels :
       \E r \in RuleSettings(trade_rules[level], RuleFields) :
          SetRule(level, r)

AggregateForS1 == AggregateRules("S1")

NextAggregate == SetAnyRule \/ AggregateForS1

SpecAggregate == InitAggregate /\ [][NextAggregate]_vars

\* the defaults of the specification: everything permitted, except options
\* and futures
PermissiveDefaults ==
    [allow_short_selling |-> TRUE, allow_margin |-> TRUE,
     allow_options |-> FALSE, allow_futures |-> FALSE,
     max_position_size_pct |-> 100, max_single_trade_pct |-> 100,
     allowed_symbols |-> [none |-> TRUE, symbols |-> {}],
     restricted_symbols |-> {},
     allowed_trade_types |-> AllTradeTypes,
     allowed_directions |-> AllDirections]

\* C16: the aggregated rule set of an order is the meet of the policies of
\* the levels above the strategy: every boolean permission the AND of the
\* levels' flags, every percentage limit the MIN, the order types and the
\* directions the INTERSECTION, the whitelist the intersection of the
\* whitelists present (none present: all symbols), the blacklist the UNION;
\* a standalone strategy gets the permissive defaults.
C16_AggregateIsMeet ==
    last.op = "_aggregate_rules"
        => LET s == last.strategy
               r == last.rules
               above == LevelsAbove(s)
               listed == { l \in above : ~trade_rules[l].allowed_symbols.none }
           IN  IF above = {} THEN r = PermissiveDefaults
               ELSE /\ r.allow_short_selling = ShortPermitted(s)
                    /\ r.allow_margin
                         = (\A l \in above : trade_rules[l].allow_margin)
                    /\ r.allow_options
                         = (\A l \in above : trade_rules[l].allow_options)
                    /\ r.allow_futures
                         = (\A l \in above : trade_rules[l].allow_futures)
                    /\ r.max_position_size_pct = MaxPositionPct(s)
                    /\ r.max_single_trade_pct = MaxSingleTradePct(s)
                    /\ r.allowed_trade_types = TypesPermitted(s)
                    /\ r.allowed_directions = DirectionsPermitted(s)
                    /\ r.allowed_symbols.none = (listed = {})
                    /\ listed # {}
                         => r.allowed_symbols.symbols
                              = { y \in Symbols :
                                    \A l \in listed :
                                       y \in trade_rules[l].allowed_symbols.symbols }
                    /\ r.restricted_symbols
                         = UNION { trade_rules[l].restricted_symbols : l \in above }

\* the policy new is at least as strict as the policy old, field by field
Tightens(new, old) ==
    /\ new.allow_short_selling => old.allow_short_selling
    /\ new.allow_margin => old.allow_margin
    /\ new.allow_options => old.allow_options
    /\ new.allow_futures => old.allow_futures
    /\ new.max_position_size_pct <= old.max_position_size_pct
    /\ new.max_single_trade_pct <= old.max_single_trade_pct
    /\ new.allowed_trade_types \subseteq old.allowed_trade_types
    /\ new.allowed_directions \subseteq old.allowed_directions
    /\ old.allowed_symbols.none
         \/ (/\ ~new.allowed_symbols.none
             /\ new.allowed_symbols.symbols \subseteq old.allowed_symbols.symbols)
    /\ old.restricted_symbols \subseteq new.restricted_symbols

\* the order intents of S1
Intents ==
    [symbol : Symbols, action : {"BUY", "SELL"}, quantity : Quantities,
     order_type : {MARKET, LIMIT}, price : Prices]

\* what create_order answers to the intent under the policies given
Answer(policies, i) ==
    create_order_under(policies, positions, "S1", i.symbol, i.action,
                       i.quantity, i.order_type, i.price)

Accepted(i) == Answer(trade_rules, i)

\* C17: tightening the policy of a level above the strategy never enlarges
\* the set of accepted orders: an order intent accepted under the tightened
\* policy was accepted, with the same instructions, under the policy before.
C17_TighteningIsMonotone ==
    [][(/\ last'.op = "set_rule"
        /\ \A l \in Levels : Tightens(trade_rules'[l], trade_rules[l]))
         => \A i \in Intents :
               LET before == Answer(trade_rules, i)
                   after == Answer(trade_rules', i)
               IN  after.outcome = "OK"
                       => /\ before.outcome = "OK"
                          /\ before.instructions = after.instructions]_vars

\* a policy was tightened twice, and of the orders accepted before some are
\* still accepted and some are refused by the rules
C17_Witness ==
    /\ last.op = "set_rule"
    /\ nrules = MaxPolicyChanges
    /\ \A l \in LevelsAbove("S1") : Tightens(trade_rules[l], DefaultTradeRules)
    /\ \E l \in LevelsAbove("S1") : trade_rules[l] # DefaultTradeRules
    /\ \E i \in Intents : Accepted(i).outcome = "OK"
    /\ \E i \in Intents :
          /\ Accepted(i).outcome # "OK"
          /\ Accepted(i).raised_at
               \in {"_determine_trade_directions", "_validate_instruction",
                    "record_rejection"}

(***************************************************************************)
(* Rejections and the errors that reach the caller of place_order         *)
(***************************************************************************)
\* C18 (under SpecRules): when an instruction of an order fails validation,
\* the rejection is recorded on the ledger of the strategy and on no other
\* ledger, and the caller receives the order-rejected error.
C18_RejectionRecorded ==
    [][(/\ last'.op = "place_order"
        /\ \E i \in 1..Len(last'.instructions) :
              ~Conforms(last'.strategy, last'.instructions[i]))
         => /\ last'.outcome = "OrderRejected"
            /\ Len(ledger'[last'.strategy]) = Len(ledger[last'.strategy]) + 1
            /\ \A o \in Owners \ {last'.strategy} : ledger'[o] = ledger[o]]_vars

\* C19 (under Spec): every rule violation (here a direction the policies do
\* not allow, and a short they forbid) reaches the caller of place_order as
\* TradeComplianceError, and a cost above the free cash as
\* InsufficientFundsError.
C19_ErrorKinds ==
    IsOrder
    => /\ (\/ ForbiddenShort(last)
           \/ \E i \in 1..Len(last.instructions) :
                 last.instructions[i].direction
                     \notin DirectionsPermitted(last.strategy))
          => IsA(last.outcome, "TradeComplianceError")
       /\ (/\ ReachedCashCheck
           /\ ~TotalCost(last.instructions).raised
           /\ RLess(FreeCashAtEntry(last.strategy),
                    RInt(TotalCost(last.instructions).value)))
          => IsA(last.outcome, "InsufficientFundsError")

(***************************************************************************)
(* SpecArguments: place_order of S1, linked or standalone, with arguments  *)
(* create_order refuses or should refuse                                   *)
(***************************************************************************)
InitArguments ==
    /\ InitHierarchy(OrderTopologies)
    /\ trade_rules = [l \in Levels |-> DefaultTradeRules]
    /\ \E a \in HeldPositions("S1", "AAPL") :
          positions = [NoPositions EXCEPT ![<<"S1", "AAPL">>] = a]
    /\ clock = 3
    /\ next_id = 3
    /\ InitQuiet

PlaceAnyOrder ==
    \E symbol \in Symbols, action \in Actions, quantity \in (0 - 1)..MaxQty,
       price \in Prices \cup {NoPrice} :
        PlaceOrder("S1", symbol, action, quantity, MARKET, price)

NextArguments == PlaceAnyOrder

SpecArguments == InitArguments /\ [][NextArguments]_vars

\* the arguments of the call are ones place_order must refuse
BadArguments(call) ==
    /\ call.op = "place_order"
    /\ \/ call.action \notin {"BUY", "SELL"}
       \/ call.quantity <= 0
       \/ call.price = NoPrice

\* C20: place_order with an action outside {BUY, SELL}, a quantity <= 0 or
\* a missing price fails at once with a bad-argument error (raised by
\* create_order before the order is validated), for a linked and for a
\* standalone strategy, and no position or ledger changes.
C20_BadArguments ==
    [][BadArguments(last')
         => /\ last'.outcome \in {"ValueError", "TypeError"}
            /\ last'.order_status \in {None, PENDING}
            /\ positions' = positions
            /\ ledger' = ledger
            /\ trades' = trades]_vars

(***************************************************************************)
(* Cash of a strategy over the fills of its positions (under SpecPosition) *)
(***************************************************************************)
\* capital - sum over the positions of |q| x avg_entry
CashAtEntry(pos, s) ==
    LET held(y) == RMul(RInt(Abs(pos[<<s, y>>].quantity)),
                        pos[<<s, y>>].avg_entry_price)
    IN  RSub(RSub(RInt(StrategyBalance), held("AAPL")), held("TSLA"))

\* the cash a fill moves: the cost of a buy taken out, the proceeds of a sale
\* put in
CashFlow(trade) ==
    IF trade.direction \in {BUY, BUY_TO_COVER}
    THEN 0 - trade.filled_quantity * trade.avg_fill_price
    ELSE trade.filled_quantity * trade.avg_fill_price

\* C21: at every point the cash of the strategy, computed as capital - sum
\* |q| x avg_entry, equals capital - cost of the buy fills + proceeds of the
\* sell fills + realized P&L: get_cash_balance gives that value, and every
\* fill moves both sides by the same amount.
C21_CashIdentity ==
    [][last'.op = "_update_position"
         => LET s == last'.strategy
                before == positions[<<s, last'.symbol>>]
                after == positions'[<<s, last'.symbol>>]
                cash == get_cash_balance(positions', s)
            IN  /\ ~cash.raised
                /\ RInt(cash.value) = CashAtEntry(positions', s)
                /\ RSub(CashAtEntry(positions', s), CashAtEntry(positions, s))
                     = RAdd(RInt(CashFlow(last'.trade)),
                            RSub(after.realized_pnl, before.realized_pnl))]_vars

(***************************************************************************)
(* SpecSystems: hierarchies of every shape built through the constructors  *)
(* and the factory methods                                                 *)
(***************************************************************************)
InitSystems ==
    /\ portfolio = [s \in Strategies |-> None]
    /\ fund = None
    /\ trade_account = None
    /\ trade_rules = [l \in Levels |-> DefaultTradeRules]
    /\ positions = NoPositions
    /\ clock = 1
    /\ next_id = 1
    /\ InitQuiet

NextSystems ==
    \/ ConstructAccount \/ ConstructFund \/ FactoryFund
    \/ ConstructPortfolio \/ FactoryPortfolio \/ ConstructStrategy

SpecSystems == InitSystems /\ [][NextSystems]_vars

\* the root of the tree of an object: the end of its chain of parents
RECURSIVE RootOf(_)
RootOf(x) == IF systems[x].parent = None THEN x ELSE RootOf(systems[x].parent)

Built == { x \in TreeObjects : systems[x].exists }

\* C22: in a hierarchy built through the constructors and factory methods
\* there is one OMS and one TMS per connected tree, owned by its root; every
\* descendant references those two instances and is not an owner, so that
\* the strategies of one tree share one position table, and two trees share
\* nothing.
C22_OneSystemPerTree ==
    /\ \A x \in Built :
          /\ systems[x]._is_oms_tms_owner = (RootOf(x) = x)
          /\ systems[RootOf(x)]._is_oms_tms_owner
          /\ systems[x]._oms = systems[RootOf(x)]._oms
          /\ systems[x]._tms = systems[RootOf(x)]._tms
    /\ \A x, y \in Built :
          /\ (systems[x]._tms = systems[y]._tms) = (RootOf(x) = RootOf(y))
          /\ (systems[x]._oms = systems[y]._oms) = (RootOf(x) = RootOf(y))

\* two strategies under two portfolios of one fund of the account share the
\* systems of the account, and a second tree has systems of its own
C22_Witness ==
    /\ systems["S1"].parent = "P1"
    /\ systems["S2"].parent = "P2"
    /\ systems["P1"].parent = "F1"
    /\ systems["P2"].exists
    /\ systems["F1"].parent = "A1"
    /\ systems["S1"]._tms = "A1"
    /\ systems["S2"]._tms # "A1"

(***************************************************************************)
(* SpecLegacy: place_trade of S1, linked or standalone, on the position it *)
(* holds                                                                   *)
(***************************************************************************)
InitLegacy ==
    /\ InitHierarchy(OrderTopologies)
    /\ trade_rules = [l \in Levels |-> DefaultTradeRules]
    /\ \E a \in HeldPositions("S1", "AAPL") :
          positions = [NoPositions EXCEPT ![<<"S1", "AAPL">>] = a]
    /\ clock = 3
    /\ next_id = 3
    /\ InitQuiet

PlaceLegacyTrade ==
    \E symbol \in Symbols, direction \in AllDirections,
       quantity \in Quantities, price \in Prices :
        PlaceTrade("S1", symbol, direction, quantity, MARKET, price)

NextLegacy == PlaceLegacyTrade

SpecLegacy == InitLegacy /\ [][NextLegacy]_vars

\* C23: place_trade maps BUY and BUY_TO_COVER to the action BUY, SELL and
\* SELL_SHORT to the action SELL, places the order with the same symbol,
\* quantity, order type and price, executes every instruction of the order
\* and returns the first trade it produced (the closing leg of a split).
C23_PlaceTrade ==
    last.op = "place_trade"
    => /\ last.action = (IF last.direction \in {BUY, BUY_TO_COVER}
                         THEN "BUY" ELSE "SELL")
       /\ \A i \in 1..Len(last.instructions) :
             /\ last.instructions[i].symbol = last.symbol
             /\ last.instructions[i].order_type = last.order_type
             /\ last.instructions[i].price = last.price
       /\ last.order_status \in {"VALIDATED", SUBMITTED, FILLED}
          => /\ last.outcome = "OK"
             /\ Len(last.executed_trades) = Len(last.instructions)
             /\ last.trade = last.executed_trades[1]
             /\ last.trade.direction = last.instructions[1].direction
             /\ last.trade.status = FILLED

(***************************************************************************)
(* PerformanceMetrics (src/tools/performance/performance.py) over the      *)
(* ledger of a strategy                                                    *)
(***************************************************************************)
\* hasattr(trade, name): the attributes of a Trade are the fields of its record
hasattr(trade, name) == name \in DOMAIN trade

\* Ledger.get_filled_trades
get_filled_trades(l) == SelectSeq(l, LAMBDA t : t.status = FILLED)

\* sorted(self.trades, key=filled_at): a stable insertion sort; the
\* identifier of a trade is the time of its fill
RECURSIVE sorted_trades(_)
sorted_trades(ts) ==
    IF ts = <<>> THEN <<>>
    ELSE LET rest == sorted_trades(SubSeq(ts, 1, Len(ts) - 1))
             t == ts[Len(ts)]
             k == Cardinality({i \in 1..Len(rest) :
                                   rest[i].trade_id <= t.trade_id})
         IN  SubSeq(rest, 1, k) \o <<t>> \o SubSeq(rest, k + 1, Len(rest))

\* position_states before any trade: every symbol at quantity 0, average 0.0
NoPositionStates == [y \in Symbols |-> [quantity |-> 0, avg_price |-> <<0, 1>>]]

\* lines 457-479: the running (quantity, avg_price) of the trade's symbol
position_state_after(pos, trade) ==
    LET old_value == RMul(RInt(pos.quantity), pos.avg_price)
    IN
    IF trade.direction = BUY_TO_COVER
    THEN [pos EXCEPT !.quantity = pos.quantity + trade.filled_quantity]
    ELSE IF trade.direction = BUY
    THEN LET qty == pos.quantity + trade.filled_quantity
             new_value == RInt(trade.filled_quantity * trade.avg_fill_price)
         IN  [quantity |-> qty,
              avg_price |-> IF qty # 0
                            THEN RDiv(RAdd(old_value, new_value), RInt(qty))
                            ELSE pos.avg_price]
    ELSE IF trade.direction = SELL
    THEN [pos EXCEPT !.quantity = pos.quantity - trade.filled_quantity]
    ELSE LET qty == pos.quantity - trade.filled_quantity
             new_value == RInt(0 - trade.filled_quantity * trade.avg_fill_price)
         IN  [quantity |-> qty,
              avg_price |-> IF qty # 0
                            THEN RDiv(RAdd(old_value, new_value), RInt(qty))
                            ELSE pos.avg_price]

\* current_prices.get(sym, avg_price)
price_of(current_prices, y, avg_price) ==
    IF current_prices[y] # NoPrice THEN RInt(current_prices[y]) ELSE avg_price

\* lines 482-487: the unrealized P&L of the running positions
RECURSIVE unrealized_pnl(_, _, _)
unrealized_pnl(states, current_prices, syms) ==
    IF syms = {} THEN RInt(0)
    ELSE LET y == CHOOSE x \in syms : TRUE
             pos == states[y]
             own == IF pos.quantity # 0
                    THEN RMul(RSub(price_of(current_prices, y, pos.avg_price),
                                   pos.avg_price),
                              RInt(pos.quantity))
                    ELSE RInt(0)
         IN  RAdd(own, unrealized_pnl(states, current_prices, syms \ {y}))

\* lines 443-499: the equity values appended for the trades from the k-th on
RECURSIVE equity_steps(_, _, _, _, _, _)
equity_steps(ts, k, states, cumulative_realized_pnl, initial_balance, current_prices) ==
    IF k > Len(ts) THEN <<>>
    ELSE LET trade == ts[k]
             cumulative == IF hasattr(trade, "realized_pnl")
                           THEN RAdd(cumulative_realized_pnl, trade.realized_pnl)
                           ELSE cumulative_realized_pnl
             after == [states EXCEPT ![trade.symbol] =
                                         position_state_after(@, trade)]
             current_equity ==
                 RAdd(RAdd(RInt(initial_balance), cumulative),
                      unrealized_pnl(after, current_prices, Symbols))
         IN  <<current_equity>> \o
             equity_steps(ts, k + 1, after, cumulative, initial_balance,
                          current_prices)

\* PerformanceMetrics._build_equity_curve
_build_equity_curve(trades_, initial_balance, current_prices) ==
    <<RInt(initial_balance)>> \o
    equity_steps(sorted_trades(trades_), 1, NoPositionStates, RInt(0),
                 initial_balance, current_prices)

\* lines 108-111: the test a trade passes to be counted a winner
is_winner(trade) ==
    /\ hasattr(trade, "is_opening") /\ ~trade.is_opening
    /\ hasattr(trade, "realized_pnl") /\ RLess(RInt(0), trade.realized_pnl)

\* lines 124-127: the test a trade passes to be counted a loser
is_loser(trade) ==
    /\ hasattr(trade, "is_opening") /\ ~trade.is_opening
    /\ hasattr(trade, "realized_pnl") /\ RLess(trade.realized_pnl, RInt(0))

\* PerformanceMetrics.winning_trades()[0]
winning_trades(trades_) == Len(SelectSeq(trades_, is_winner))

\* PerformanceMetrics.losing_trades()[0]
losing_trades(trades_) == Len(SelectSeq(trades_, is_loser))

\* PerformanceMetrics.win_rate
win_rate(trades_) ==
    LET winners_count == winning_trades(trades_)
        total_closing_trades == winners_count + losing_trades(trades_)
    IN  IF total_closing_trades = 0 THEN RInt(0)
        ELSE RMul(RDiv(RInt(winners_count), RInt(total_closing_trades)),
                  RInt(100))

\* execute_trade from its position update on (lines 120-141), for a trade
\* that is already filled
book_trade(w, s, trade) ==
    _record_in_hierarchy_ledgers(_update_position(w, s, trade), s, trade)

\* tms._update_position(strategy, trade) followed by
\* tms._record_in_hierarchy_ledgers(strategy, trade)
BookTrade(s, trade) ==
    /\ trade.strategy = s
    /\ trade.trade_id = next_id
    /\ SetWorld(book_trade([World EXCEPT !.next_id = next_id + 1], s, trade))
    /\ last' = [NoCall EXCEPT !.op = "book_trade", !.strategy = s,
                              !.symbol = trade.symbol, !.trade = trade,
                              !.outcome = "OK"]
    /\ UNCHANGED <<portfolio, fund, trade_account, trade_rules, nrules,
                   capital, systems, strategy_id>>

\* m = PerformanceMetrics(name, "Strategy", s.ledger, s.strategy_balance,
\* current_prices=...), then m._build_equity_curve(), m.winning_trades(),
\* m.losing_trades(), m.win_rate()
Measure(s, current_prices) ==
    LET trades_ == get_filled_trades(ledger[s])
    IN  /\ last' = [NoCall EXCEPT
                      !.op = "PerformanceMetrics", !.strategy = s,
                      !.current_prices = current_prices,
                      !.equity_curve = _build_equity_curve(
                                           trades_, StrategyBalance,
                                           current_prices),
                      !.winning_trades = winning_trades(trades_),
                      !.losing_trades = losing_trades(trades_),
                      !.win_rate = win_rate(trades_),
                      !.outcome = "OK"]
        /\ UNCHANGED <<portfolio, fund, trade_account, trade_rules, positions,
                       ledger, trades, clock, next_id, nrules, capital,
                       systems, strategy_id>>

(***************************************************************************)
(* SpecMetrics: fills of S1 booked in its position and ledger, and the     *)
(* performance metrics of that ledger                                      *)
(***************************************************************************)
InitMetrics == InitPosition

BookFillS1 ==
    /\ next_id <= MaxBooked
    /\ \E direction \in AllDirections, quantity \in Quantities,
          price \in Prices :
         BookTrade("S1", Fill("S1", "AAPL", direction, quantity, price, next_id))

MeasureS1 ==
    \E current_prices \in [Symbols -> Prices \cup {NoPrice}] :
        Measure("S1", current_prices)

NextMetrics == BookFillS1 \/ MeasureS1

SpecMetrics == InitMetrics /\ [][NextMetrics]_vars

\* the running positions once the trades from the k-th on are replayed
RECURSIVE StatesAfter(_, _, _)
StatesAfter(ts, k, states) ==
    IF k > Len(ts) THEN states
    ELSE StatesAfter(ts, k + 1,
                     [states EXCEPT ![ts[k].symbol] =
                                        position_state_after(@, ts[k])])

\* the realized P&L of a fill on the running position it meets: (x - avg) * n
\* for a SELL against a long, (avg - x) * n for a BUY_TO_COVER against a short
RealizedBy(trade, pos) ==
    IF trade.direction = SELL /\ pos.quantity > 0
    THEN RMul(RSub(RInt(trade.avg_fill_price), pos.avg_price),
              RInt(trade.filled_quantity))
    ELSE IF trade.direction = BUY_TO_COVER /\ pos.quantity < 0
    THEN RMul(RSub(pos.avg_price, RInt(trade.avg_fill_price)),
              RInt(trade.filled_quantity))
    ELSE RInt(0)

\* the realized P&L accumulated by the closing fills from the k-th on
RECURSIVE RealizedReplayed(_, _, _)
RealizedReplayed(ts, k, states) ==
    IF k > Len(ts) THEN RInt(0)
    ELSE RAdd(RealizedBy(ts[k], states[ts[k].symbol]),
              RealizedReplayed(ts, k + 1,
                               [states EXCEPT ![ts[k].symbol] =
                                          position_state_after(@, ts[k])]))

\* (current_price - avg) * signed quantity of one running position, at the
\* price of the mapping or at its own average when the mapping has none
OpenGain(pos, price) ==
    IF pos.quantity = 0 THEN RInt(0)
    ELSE RMul(RSub(IF price = NoPrice THEN pos.avg_price ELSE RInt(price),
                   pos.avg_price),
              RInt(pos.quantity))

\* C24: for any strategy ledger of filled trades and any price mapping, the
\* last value of the reconstructed equity curve is the initial balance plus
\* the realized P&L of the closing fills replayed plus, over the open
\* positions, (current_price - avg) * signed quantity.
C24_EquityCoherence ==
    last.op = "PerformanceMetrics"
    => LET ts == get_filled_trades(ledger[last.strategy])
           states == StatesAfter(ts, 1, NoPositionStates)
           curve == last.equity_curve
       IN  curve[Len(curve)] =
               RAdd(RAdd(RInt(StrategyBalance),
                         RealizedReplayed(ts, 1, NoPositionStates)),
                    RAdd(OpenGain(states["AAPL"], last.current_prices["AAPL"]),
                         OpenGain(states["TSLA"], last.current_prices["TSLA"])))

\* the number of fills from the k-th on whose realized P&L, on the running
\* position they meet, has the given sign (1 a profit, -1 a loss)
RECURSIVE ClosingFills(_, _, _, _)
ClosingFills(ts, k, states, sign) ==
    IF k > Len(ts) THEN 0
    ELSE LET realized == RealizedBy(ts[k], states[ts[k].symbol])
             counted == IF sign > 0 THEN RLess(RInt(0), realized)
                        ELSE RLess(realized, RInt(0))
         IN  (IF counted THEN 1 ELSE 0) +
             ClosingFills(ts, k + 1,
                          [states EXCEPT ![ts[k].symbol] =
                                             position_state_after(@, ts[k])],
                          sign)

\* C25: winning_trades and losing_trades count exactly the closing fills
\* whose realized P&L is above and below zero, and the win rate is
\* winners / (winners + losers) * 100 (one round trip closed at a profit and
\* one at a loss: 1, 1 and 50).
C25_WinnersAndLosers ==
    last.op = "PerformanceMetrics"
    => LET ts == get_filled_trades(ledger[last.strategy])
           winners == ClosingFills(ts, 1, NoPositionStates, 1)
           losers == ClosingFills(ts, 1, NoPositionStates, -1)
       IN  /\ last.winning_trades = winners
           /\ last.losing_trades = losers
           /\ winners + losers > 0
              => last.win_rate = RMul(RDiv(RInt(winners),
                                           RInt(winners + losers)),
                                      RInt(100))

(***************************************************************************)
(* The transitions of a position under the fills of an order               *)
(***************************************************************************)
\* the change of signed quantity a filled trade makes
SignedFill(trade) ==
    IF trade.direction \in {BUY, BUY_TO_COVER} THEN trade.filled_quantity
    ELSE 0 - trade.filled_quantity

\* the transitions listed for a fill of n in a direction, met at quantity q
ListedTransition(direction, n, q) ==
    IF direction = BUY THEN q >= 0
    ELSE IF direction = SELL THEN q > 0 /\ n <= q
    ELSE IF direction = BUY_TO_COVER THEN q < 0 /\ n <= 0 - q
    ELSE q <= 0

\* the quantity the i-th trade of a sequence meets, from quantity q on
RECURSIVE QuantityBefore(_, _, _)
QuantityBefore(ts, i, q) ==
    IF i = 1 THEN q ELSE QuantityBefore(ts, i - 1, q) + SignedFill(ts[i - 1])

\* the positions the instructions of an order leave when each is filled for
\* its quantity at its price and applied by _update_position, in the order
\* emitted
RECURSIVE PositionsExecuted(_, _, _)
PositionsExecuted(w, s, instrs) ==
    IF instrs = <<>> THEN w.positions
    ELSE PositionsExecuted(
             _update_position(w, s,
                 Fill(s, Head(instrs).symbol, Head(instrs).direction,
                      Head(instrs).quantity, Head(instrs).price, w.next_id)),
             s, Tail(instrs))

\* the quantity the i-th instruction of the last order meets: the one held,
\* moved by the instructions before it
QuantityMet(i) ==
    PositionsExecuted(World, last.strategy,
                      SubSeq(last.instructions, 1, i - 1))
        [<<last.strategy, last.symbol>>].quantity

\* C26: every trade an order fills, and every instruction an order hands to
\* execute_trade, moves the position along a listed transition (BUY at
\* q >= 0, SELL at q > 0 for at most q, BUY_TO_COVER at q < 0 for at most
\* |q|, SELL_SHORT at q <= 0), so no single trade takes a position from one
\* side to the other: an order that flips the side is two instructions, the
\* first bringing the quantity to 0 and the second opening the other side.
C26_ListedTransitions ==
    Validated
    => LET ts == last.executed_trades
           instrs == last.instructions
           q == last.current_qty
           flips == \/ last.action = "SELL" /\ q > 0 /\ last.quantity > q
                    \/ last.action = "BUY" /\ q < 0 /\ last.quantity > 0 - q
       IN  /\ \A i \in 1..Len(ts) :
                ListedTransition(ts[i].direction, ts[i].filled_quantity,
                                 QuantityBefore(ts, i, q))
           /\ \A i \in 1..Len(instrs) :
                /\ ListedTransition(instrs[i].direction, instrs[i].quantity,
                                    QuantityMet(i))
                /\ ~(QuantityMet(i) > 0 /\ QuantityMet(i + 1) < 0)
                /\ ~(QuantityMet(i) < 0 /\ QuantityMet(i + 1) > 0)
           /\ flips
              => /\ Len(instrs) = 2
                 /\ QuantityMet(2) = 0
                 /\ (q > 0) = (QuantityMet(3) < 0)
                 /\ (q < 0) = (QuantityMet(3) > 0)

\* a sale of more than the long held passed validation: SELL for the long,
\* then SELL_SHORT for the rest, the quantity 0 between the two
C26_Witness ==
    /\ last.op = "place_order"
    /\ last.order_status = SUBMITTED
    /\ last.action = "SELL"
    /\ last.current_qty > 0
    /\ last.quantity > last.current_qty
    /\ Len(last.instructions) = 2
    /\ last.instructions[1].direction = SELL
    /\ last.instructions[2].direction = SELL_SHORT
    /\ QuantityMet(2) = 0
    /\ QuantityMet(3) < 0

(***************************************************************************)
(* SpecBooked: orders of S1, standalone or linked, placed between fills    *)
(* booked in its position and in the ledgers of its chain                  *)
(***************************************************************************)
InitBooked ==
    /\ InitHierarchy(OrderTopologies)
    /\ trade_rules = [l \in Levels |-> DefaultTradeRules]
    /\ positions = NoPositions
    /\ clock = 1
    /\ next_id = 1
    /\ InitQuiet

PlaceOrderBooked ==
    \E action \in {"BUY", "SELL"}, quantity \in Quantities :
        PlaceOrder("S1", "AAPL", action, quantity, MARKET, 1)

BookFillBooked ==
    /\ next_id <= MaxBooked
    /\ \E direction \in AllDirections, quantity \in Quantities :
         BookTrade("S1", Fill("S1", "AAPL", direction, quantity, 1, next_id))

NextBooked == BookFillBooked \/ PlaceOrderBooked

SpecBooked == InitBooked /\ [][NextBooked]_vars

\* the filled quantity a ledger holds in a symbol for a strategy, bought less
\* sold
RECURSIVE NetFilled(_, _, _)
NetFilled(l, s, y) ==
    IF l = <<>> THEN 0
    ELSE (IF Head(l).strategy = s /\ Head(l).symbol = y /\ Head(l).status = FILLED
          THEN SignedFill(Head(l)) ELSE 0)
         + NetFilled(Tail(l), s, y)

\* C27: whenever no call is in progress, the signed quantity of every
\* position is the filled quantity its strategy's ledger holds in the symbol,
\* BUY and BUY_TO_COVER less SELL and SELL_SHORT (0 without a position), and
\* the ledgers of the strategy's chain hold the same: no trade is in a
\* ledger without its position update, no position update without its
\* trade in every ledger of the chain.
C27_PositionMatchesLedger ==
    \A s \in Strategies, y \in Symbols :
        \A o \in Chain(s) :
            positions[<<s, y>>].quantity = NetFilled(ledger[o], s, y)

\* an order of a linked strategy raised in its fill, after two fills were
\* booked that left a position open
C27_Witness ==
    /\ last.op = "place_order"
    /\ last.order_status = SUBMITTED
    /\ last.outcome = "TypeError"
    /\ Cardinality(Chain("S1")) = 3
    /\ Len(ledger["S1"]) = 2
    /\ positions[<<"S1", "AAPL">>].quantity # 0

\* the change of signed quantity the instructions of an order make in full
RECURSIVE SignedInstructions(_)
SignedInstructions(instrs) ==
    IF instrs = <<>> THEN 0
    ELSE (IF Head(instrs).direction \in {BUY, BUY_TO_COVER}
          THEN Head(instrs).quantity ELSE 0 - Head(instrs).quantity)
         + SignedInstructions(Tail(instrs))

\* create_order returned the order of this call
PassedValidation(call) ==
    /\ call.op = "place_order"
    /\ call.order_status \in {"VALIDATED", SUBMITTED, FILLED}

\* C28: the instructions of a split order execute in the order emitted, the
\* second on the position left by the first (the closing leg brings the
\* quantity to 0 before the opening leg is applied), and the two trades
\* enter every ledger of the chain in that order; an order placed after
\* another on the same strategy derives its instructions from the position
\* left by the fills of the earlier order.
C28_OrderedExecution ==
    [][LET call == last'
           ts == call.executed_trades
           key == <<call.strategy, call.symbol>>
       IN  /\ PassedValidation(call) /\ Len(call.instructions) = 2
              => /\ Len(ts) = 2
                 /\ \A i \in 1..2 :
                      /\ ts[i].direction = call.instructions[i].direction
                      /\ ts[i].filled_quantity = call.instructions[i].quantity
                 /\ call.current_qty + SignedFill(ts[1]) = 0
                 /\ positions'[key].quantity = SignedFill(ts[2])
                 /\ \A o \in Chain(call.strategy) :
                      ledger'[o] = ledger[o] \o ts
           /\ PassedValidation(last) /\ PassedValidation(call)
              /\ last.strategy = call.strategy /\ last.symbol = call.symbol
              => call.current_qty
                     = last.current_qty + SignedInstructions(last.instructions)
      ]_vars

\* C29: a fill on a listed transition that reduces the quantity never
\* changes the average entry price: after a SELL against a long or a BUY_TO_COVER against a short that
\* leaves the position open, avg_entry_price is what it was before the fill;
\* it changes only on a fill that adds to the quantity on the position's own
\* side.
C29_ReducingFillKeepsAverage ==
    [][/\ last'.op = "_update_position"
       /\ ListedTransition(last'.trade.direction, last'.trade.filled_quantity,
                           positions[<<last'.strategy, last'.symbol>>].quantity)
         => LET key == <<last'.strategy, last'.symbol>>
                before == positions[key]
                after == positions'[key]
                trade == last'.trade
                n == trade.filled_quantity
                reducing ==
                    \/ trade.direction = SELL /\ before.quantity > n
                    \/ trade.direction = BUY_TO_COVER
                       /\ 0 - before.quantity > n
                adding ==
                    \/ trade.direction = BUY /\ before.quantity >= 0
                    \/ trade.direction = SELL_SHORT /\ before.quantity <= 0
            IN  /\ reducing
                   => after.avg_entry_price = before.avg_entry_price
                /\ after.avg_entry_price # before.avg_entry_price
                   => adding]_vars

\* C30: on every transition of a position from flat to open, the first and
\* every later one, opened_at is set at that transition; on every transition
\* from open to flat, by the full SELL of a long and the full BUY_TO_COVER of
\* a short alike, closed_at is set.
C30_OpenedAndClosedAt ==
    [][/\ last'.op = "_update_position"
       /\ ListedTransition(last'.trade.direction, last'.trade.filled_quantity,
                           positions[<<last'.strategy, last'.symbol>>].quantity)
         => LET key == <<last'.strategy, last'.symbol>>
                before == positions[key]
                after == positions'[key]
            IN  /\ before.quantity = 0 /\ after.quantity # 0
                   => after.opened_at = clock
                /\ before.quantity # 0 /\ after.quantity = 0
                   => after.closed_at # 0]_vars

(***************************************************************************)
(* SpecPolicy: the symbol, direction and order-type policies of the        *)
(* portfolio and fund of S1 change between its orders, its aggregates and  *)
(* the fills booked in its ledgers                                         *)
(***************************************************************************)
InitPolicy == InitBooked

BookFillPolicy ==
    /\ next_id <= MaxRecords
    /\ BookTrade("S1", Fill("S1", "AAPL", BUY, 1, 1, next_id))

NextPolicy ==
    BookFillPolicy \/ SetSymbolRule \/ PlaceOrderBooked \/ AggregateForS1

SpecPolicy == InitPolicy /\ [][NextPolicy]_vars

\* C31: aggregating the rules never modifies the policy of any level (the
\* whitelist and blacklist of each level are the same after any number of
\* orders); a change of a fund's or portfolio's policy between two orders
\* applies to the next aggregate and the next order, and leaves the trades
\* already filled, in every ledger, untouched.
C31_AggregationIsPure ==
    [][LET s == last'.strategy
       IN  /\ last'.op \in {"_aggregate_rules", "place_order"}
              => trade_rules' = trade_rules
           /\ last'.op = "set_rule"
              => /\ ledger' = ledger
                 /\ trades' = trades
                 /\ positions' = positions
           /\ last'.op = "_aggregate_rules"
              => /\ last'.rules.allowed_directions = DirectionsPermitted(s)
                 /\ last'.rules.allowed_trade_types = TypesPermitted(s)
                 /\ \A y \in Symbols :
                      SymbolPermitted(s, y)
                      <=> /\ y \notin last'.rules.restricted_symbols
                          /\ last'.rules.allowed_symbols.none
                             \/ y \in last'.rules.allowed_symbols.symbols
           /\ PassedValidation(last')
              => \A i \in 1..Len(last'.instructions) :
                    Conforms(s, last'.instructions[i])]_vars

\* an order of S1 was judged, and refused, under whitelists set at both
\* levels above it after a fill was booked, with the fill still in the
\* ledger of the fund
C31_Witness ==
    /\ last.op = "place_order"
    /\ ~PassedValidation(last)
    /\ last.instructions # <<>>
    /\ nrules = 2
    /\ fund # None
    /\ trade_rules["P1"].allowed_symbols = Whitelist({"AAPL"})
    /\ trade_rules["F1"].allowed_symbols = Whitelist({"TSLA"})
    /\ Len(ledger["F1"]) >= 1

(***************************************************************************)
(* SpecAppend: the ledgers of the hierarchy of S1 under booked fills,      *)
(* orders, and callers that empty the list get_all_trades gave them        *)
(***************************************************************************)
\* lst = owner.ledger.get_all_trades(); lst.clear()
ClearReturnedTrades(o) ==
    LET got == get_all_trades(ledger[o])
    IN  /\ ledger' = IF got.is_copy THEN ledger ELSE [ledger EXCEPT ![o] = <<>>]
        /\ last' = [NoCall EXCEPT !.op = "get_all_trades", !.child = o,
                                  !.executed_trades = got.returned,
                                  !.outcome = "OK"]
        /\ UNCHANGED <<portfolio, fund, trade_account, trade_rules, positions,
                       trades, clock, next_id, nrules, capital, systems,
                       strategy_id>>

InitAppend == InitBooked

ClearAnyReturnedTrades ==
    \E o \in UNION {Chain(s) : s \in Strategies} : ClearReturnedTrades(o)

NextAppend == BookFillBooked \/ PlaceOrderBooked \/ ClearAnyReturnedTrades

SpecAppend == InitAppend /\ [][NextAppend]_vars

IsPrefix(a, b) == Len(a) <= Len(b) /\ SubSeq(b, 1, Len(a)) = a

\* C32: every ledger is append-only: across any operation the trade list
\* before it is a prefix of the trade list after it (no trade is removed,
\* replaced or reordered), and the list get_all_trades returns is a copy,
\* whose mutation does not affect the ledger.
C32_AppendOnly ==
    [][/\ \A o \in Owners : IsPrefix(ledger[o], ledger'[o])
       /\ last'.op = "get_all_trades"
          => /\ last'.executed_trades = ledger[last'.child]
             /\ ledger' = ledger]_vars

\* the list returned for the ledger of a fund that held two trades was
\* emptied by its caller
C32_Witness ==
    /\ last.op = "get_all_trades"
    /\ last.child = "F1"
    /\ Len(last.executed_trades) = 2
    /\ ledger["F1"] = last.executed_trades

(***************************************************************************)
(* Backtester (src/tools/backtesting/backtester.py): run() over the days   *)
(* of the price history, on a new standalone strategy whose run() books    *)
(* the fills of the day                                                    *)
(***************************************************************************)
\* what the strategy does on one day: nothing, a buy it keeps, or a round
\* trip bought and sold during the day
DayPlans ==
    {<<>>}
    \cup {<<[direction |-> BUY, quantity |-> 1, price |-> p]>> : p \in Prices}
    \cup {<<[direction |-> BUY, quantity |-> 1, price |-> p],
            [direction |-> SELL, quantity |-> 1, price |-> x]>> :
              p \in Prices, x \in Prices}

Plans == UNION {[1..n -> DayPlans] : n \in 1..MaxDays}

\* commission_pct, in hundredths
CommissionPcts == {Rat(c, 100) : c \in 0..MaxCommission}

\* strategy.run(historical_slice): the fills of the day, booked in order
RECURSIVE run_strategy(_, _, _)
run_strategy(w, s, fills) ==
    IF fills = <<>> THEN w
    ELSE run_strategy(
             book_trade([w EXCEPT !.next_id = w.next_id + 1], s,
                        Fill(s, "AAPL", Head(fills).direction,
                             Head(fills).quantity, Head(fills).price,
                             w.next_id)),
             s, Tail(fills))

\* line 143: the realized P&L of the positions of the strategy
realized_pnl_of(pos, s) ==
    RAdd(pos[<<s, "AAPL">>].realized_pnl, pos[<<s, "TSLA">>].realized_pnl)

\* line 152: the commission of a trade
commission_of(trade, commission_pct) ==
    RMul(RInt(trade.filled_quantity * trade.avg_fill_price), commission_pct)

RECURSIVE total_commission(_, _)
total_commission(new_trades, commission_pct) ==
    IF new_trades = <<>> THEN RInt(0)
    ELSE RAdd(commission_of(Head(new_trades), commission_pct),
              total_commission(Tail(new_trades), commission_pct))

\* lines 147-149: strategy.trades[len(equity_curve)-1:] when the strategy
\* has more trades than days have been recorded
new_trades_of(strategy_trades, equity_curve) ==
    IF Len(strategy_trades) > Len(equity_curve) - 1
    THEN SubSeq(strategy_trades, Len(equity_curve), Len(strategy_trades))
    ELSE <<>>

\* line 154, trade.commission = commission, seen through every list that
\* holds the trade
with_commission(l, ids, commission_pct) ==
    [i \in 1..Len(l) |->
        IF l[i].trade_id \in ids
        THEN [l[i] EXCEPT !.commission = commission_of(l[i], commission_pct)]
        ELSE l[i]]

\* lines 115-162: the loop over the days left
RECURSIVE backtest_days(_, _, _, _, _, _)
backtest_days(w, s, plan, equity_curve, charged, commission_pct) ==
    IF plan = <<>>
    THEN [outcome |-> "OK", w |-> w, equity_curve |-> equity_curve,
          charged |-> charged]
    ELSE
    LET w1 == run_strategy(w, s, Head(plan))
        cash == get_cash_balance(w1.positions, s)
    IN  IF cash.raised
        THEN [outcome |-> "AttributeError", w |-> w1,
              equity_curve |-> equity_curve, charged |-> charged]
        ELSE
        LET new_trades == new_trades_of(w1.trades[s], equity_curve)
            ids == {new_trades[i].trade_id : i \in 1..Len(new_trades)}
            current_equity ==
                RSub(RAdd(RInt(cash.value), realized_pnl_of(w1.positions, s)),
                     total_commission(new_trades, commission_pct))
            w2 == [w1 EXCEPT
                     !.trades[s] = with_commission(@, ids, commission_pct),
                     !.ledger[s] = with_commission(@, ids, commission_pct)]
            charged_now ==
                charged \o [i \in 1..Len(new_trades) |->
                              [trade_id |-> new_trades[i].trade_id,
                               commission |-> commission_of(new_trades[i],
                                                            commission_pct)]]
        IN  \* daily_return divides by the previous day's equity
            IF equity_curve[Len(equity_curve)][1] = 0
            THEN [outcome |-> "ZeroDivisionError", w |-> w2,
                  equity_curve |-> Append(equity_curve, current_equity),
                  charged |-> charged_now]
            ELSE backtest_days(
                     w2, s, Tail(plan), Append(equity_curve, current_equity),
                     charged_now, commission_pct)

\* Backtester(strategy_class, historical_data, initial_capital,
\* commission_pct).run()
BacktesterRun(s, plan, commission_pct) ==
    LET r == backtest_days(World, s, plan, <<RInt(StrategyBalance)>>, <<>>,
                           commission_pct)
    IN  /\ SetWorld(r.w)
        /\ last' = [NoCall EXCEPT !.op = "Backtester.run", !.strategy = s,
                                  !.plan = plan,
                                  !.commission_pct = commission_pct,
                                  !.equity_curve = r.equity_curve,
                                  !.charged = r.charged,
                                  !.outcome = r.outcome]
        /\ UNCHANGED <<portfolio, fund, trade_account, trade_rules, nrules,
                       capital, systems, strategy_id>>

(***************************************************************************)
(* SpecBacktest: one backtest of a standalone strategy                     *)
(***************************************************************************)
InitBacktest == InitPosition

RunBacktest ==
    /\ next_id = 1
    /\ \E plan \in Plans, commission_pct \in CommissionPcts :
         BacktesterRun("S1", plan, commission_pct)

NextBacktest == RunBacktest

SpecBacktest == InitBacktest /\ [][NextBacktest]_vars


(***************************************************************************)
(* C33, C36: what a backtest does to the trades it finds filled            *)
(***************************************************************************)
\* C33: every trade recorded in a ledger is FILLED, and a FILLED trade keeps
\* the fields it was filled with: after a backtest run every trade of the
\* strategy's ledger has status FILLED, the quantity it was filled for and
\* the commission it had when it was filled (Trade.__init__ sets 0.0 and
\* the fill does not touch it).
C33_FilledTradesAreFrozen ==
    last.op = "Backtester.run" =>
        \A i \in 1..Len(ledger["S1"]) :
            LET t == ledger["S1"][i]
            IN  /\ t.status = FILLED
                /\ t.filled_quantity = t.quantity
                /\ t.commission = RInt(0)

\* the number of trades the plan produces on the days 1..d
RECURSIVE TradesThrough(_, _)
TradesThrough(plan, d) ==
    IF d = 0 THEN 0 ELSE Len(plan[d]) + TradesThrough(plan, d - 1)

\* the cash the trades of a list bring in, less the cash they cost
RECURSIVE NetProceeds(_)
NetProceeds(l) ==
    IF l = <<>> THEN 0
    ELSE (IF Head(l).direction \in {BUY, BUY_TO_COVER}
          THEN -(Head(l).filled_quantity * Head(l).avg_fill_price)
          ELSE Head(l).filled_quantity * Head(l).avg_fill_price)
         + NetProceeds(Tail(l))

\* the equity of day d when every trade made so far has been charged once:
\* the days of a run that completes end flat, so the realized P&L is the
\* net proceeds of the trades
EquityChargedOnce(d) ==
    LET done == SubSeq(trades["S1"], 1, TradesThrough(last.plan, d))
    IN  RSub(RInt(StrategyBalance + NetProceeds(done)),
             total_commission(done, last.commission_pct))

\* C36: in a backtest run with commission_pct > 0 that completes, every
\* trade is charged filled quantity x fill price x commission_pct exactly
\* once, and the equity of every day is the capital plus the realized P&L
\* less the commission of every trade made on that day or before it.
C36_CommissionChargedOnce ==
    (/\ last.op = "Backtester.run"
     /\ last.outcome = "OK"
     /\ last.commission_pct[1] > 0) =>
        /\ \A i \in 1..Len(trades["S1"]) :
               LET t == trades["S1"][i]
               IN  /\ Cardinality({j \in 1..Len(last.charged) :
                         last.charged[j].trade_id = t.trade_id}) = 1
                   /\ t.commission = commission_of(t, last.commission_pct)
        /\ \A d \in 1..Len(last.plan) :
               last.equity_curve[d + 1] = EquityChargedOnce(d)


(***************************************************************************)
(* SpecCash: fills booked for S1 and reads of its cash balance             *)
(***************************************************************************)
\* strategy.get_cash_balance(current_prices), strategy.py lines 117-127:
\* the loop calls pos.get_market_value(price) for the first open position
\* it meets, and Position defines no such method; with no open position
\* the loop adds nothing to positions_value
cash_balance_at(pos, s, current_prices) ==
    LET open == { y \in Symbols :
                    pos[<<s, y>>].exists /\ ~is_closed(pos[<<s, y>>]) }
        positions_value == 0
    IN  IF open # {}
        THEN [raised |-> TRUE, value |-> 0]
        ELSE [raised |-> FALSE, value |-> StrategyBalance - positions_value]

GetCashBalance(s, current_prices) ==
    LET r == cash_balance_at(positions, s, current_prices)
    IN  /\ last' = [NoCall EXCEPT
                      !.op = "get_cash_balance", !.strategy = s,
                      !.current_prices = current_prices,
                      !.balance = r.value,
                      !.outcome = IF r.raised THEN "AttributeError"
                                  ELSE "OK"]
        /\ UNCHANGED <<portfolio, fund, trade_account, trade_rules, positions,
                       ledger, trades, clock, next_id, nrules, capital,
                       systems, strategy_id>>

InitCash == InitPosition

BookFillCash ==
    /\ next_id <= MaxBooked
    /\ \E y \in Symbols, direction \in AllDirections, quantity \in Quantities,
          price \in Prices :
         BookTrade("S1", Fill("S1", y, direction, quantity, price, next_id))

GetCashBalanceS1 ==
    \E current_prices \in [Symbols -> Prices \cup {NoPrice}] :
        GetCashBalance("S1", current_prices)

NextCash == BookFillCash \/ GetCashBalanceS1

SpecCash == InitCash /\ [][NextCash]_vars

\* |quantity| x price of an open position, the price supplied for its symbol
\* or its average entry price; nothing for a closed or absent position
ValueAt(pos, s, y, current_prices) ==
    IF pos[<<s, y>>].exists /\ ~is_closed(pos[<<s, y>>])
    THEN RMul(RInt(Abs(pos[<<s, y>>].quantity)),
              price_of(current_prices, y, pos[<<s, y>>].avg_entry_price))
    ELSE RInt(0)

\* C34: get_cash_balance(prices) returns, without error, the capital of the
\* strategy less the sum over its open positions of |quantity| x price, the
\* average entry price standing in for a price that is not supplied.
C34_CashBalance ==
    last.op = "get_cash_balance" =>
        /\ last.outcome = "OK"
        /\ RInt(last.balance)
             = RSub(RSub(RInt(StrategyBalance),
                         ValueAt(positions, "S1", "AAPL", last.current_prices)),
                    ValueAt(positions, "S1", "TSLA", last.current_prices))


(***************************************************************************)
(* C35: the replay of the equity curve against the positions of the TMS    *)
(***************************************************************************)
\* every trade of a sequence moves the quantity along a listed transition
ListedHistory(ts) ==
    \A i \in 1..Len(ts) :
        ListedTransition(ts[i].direction, ts[i].filled_quantity,
                         QuantityBefore(ts, i, 0))

\* C35: after every trade, the replay of the strategy's filled trades in
\* _build_equity_curve holds for every symbol the signed quantity and the
\* average price of the position the TMS holds, whatever the directions of
\* the fills (histories of listed transitions).
C35_ReplayMatchesPosition ==
    \A y \in Symbols :
        LET ts == SelectSeq(sorted_trades(get_filled_trades(ledger["S1"])),
                            LAMBDA t : t.symbol = y)
            state == StatesAfter(ts, 1, NoPositionStates)[y]
        IN  (ts # <<>> /\ ListedHistory(ts)) =>
                /\ state.quantity = positions[<<"S1", y>>].quantity
                /\ state.avg_price = positions[<<"S1", y>>].avg_entry_price


(***************************************************************************)
(* C37: short sales while short selling is disabled                        *)
(***************************************************************************)
\* C37: while the aggregated allow_short_selling of a strategy is false, no
\* place_order on it produces a filled SELL_SHORT trade, whatever position
\* it holds in the symbol: the order returns no SELL_SHORT trade, no ledger
\* gains one, and the position is neither opened short nor made shorter.
C37_NoShortWhileDisabled ==
    [][(/\ last'.op = "place_order"
        /\ ~ShortPermitted(last'.strategy))
         => LET key == <<last'.strategy, last'.symbol>>
            IN  /\ \A i \in 1..Len(last'.executed_trades) :
                       last'.executed_trades[i].direction # SELL_SHORT
                /\ \A o \in DOMAIN ledger :
                       \A i \in (Len(ledger[o]) + 1)..Len(ledger'[o]) :
                           ledger'[o][i].direction # SELL_SHORT
                /\ positions'[key].quantity >=
                       (IF positions[key].quantity < 0
                        THEN positions[key].quantity ELSE 0)]_vars

\* a sale on a position already short, placed while short selling is
\* disabled above the strategy: the SELL_SHORT instruction is handed to
\* execute_trade and no trade is filled
C37_Witness ==
    /\ last.op = "place_order"
    /\ last.action = "SELL"
    /\ ~ShortPermitted(last.strategy)
    /\ last.current_qty < 0
    /\ last.order_status = SUBMITTED
    /\ last.outcome = "TypeError"
    /\ Len(last.instructions) = 1
    /\ last.instructions[1].direction = SELL_SHORT
    /\ last.executed_trades = <<>>
    /\ positions[<<last.strategy, last.symbol>>].quantity = last.current_qty


(***************************************************************************)
(* SpecAccepted: orders of S1 at any price on positions built by fills     *)
(***************************************************************************)
InitAccepted == InitPosition

\* a fill of S1 in any direction booked in its position and ledger, for
\* the smallest or the largest quantity at the lowest or the highest price
BookFillPriced ==
    /\ next_id <= MaxBooked
    /\ \E direction \in AllDirections, quantity \in {1, MaxQty},
          price \in {1, MaxPrice} :
         BookTrade("S1", Fill("S1", "AAPL", direction, quantity, price,
                              next_id))

PlaceOrderPriced ==
    \E action \in {"BUY", "SELL"}, quantity \in Quantities,
       price \in {1, MaxPrice} :
        PlaceOrder("S1", "AAPL", action, quantity, MARKET, price)

NextAccepted == BookFillPriced \/ PlaceOrderPriced

SpecAccepted == InitAccepted /\ [][NextAccepted]_vars

\* C38: an accepted order (validated, funds checked, submitted for
\* execution) on a strategy whose free cash at entry prices, capital less
\* the sum over open positions of |q| x avg_entry, is not negative leaves
\* it not negative, for long, short and side-flipping orders at positive
\* prices.
C38_FreeCashNeverNegative ==
    [][(/\ last'.op = "place_order"
        /\ last'.order_status = SUBMITTED
        /\ ~RLess(CashAtEntry(positions, "S1"), RInt(0)))
         => ~RLess(CashAtEntry(positions', "S1"), RInt(0))]_vars

\* an accepted sale that flips a long into a short worth more than the free
\* cash of the strategy, which is not negative after the order
C38_Witness ==
    /\ last.op = "place_order"
    /\ last.order_status = SUBMITTED
    /\ last.current_qty > 0
    /\ Len(last.instructions) = 2
    /\ last.instructions[2].direction = SELL_SHORT
    /\ RLess(CashAtEntry(positions, "S1"),
             RInt(last.instructions[2].quantity * last.instructions[2].price))
    /\ ~RLess(CashAtEntry(positions, "S1"), RInt(0))


(***************************************************************************)
(* C39: the average entry price and the cost basis of a position           *)
(***************************************************************************)
\* avg_entry_price and total_cost_basis are not negative, and
\* total_cost_basis is |quantity| x avg_entry_price
SoundCostBasis(p) ==
    /\ ~RLess(p.avg_entry_price, RInt(0))
    /\ ~RLess(p.total_cost_basis, RInt(0))
    /\ p.total_cost_basis = RMul(RInt(Abs(p.quantity)), p.avg_entry_price)

\* C39: with positive prices, a fill along a listed transition (partial
\* covers of a short and re-opens after a close included) of a position
\* whose avg_entry_price and total_cost_basis are >= 0 leaves both >= 0,
\* with total_cost_basis = |quantity| x avg_entry_price.
C39_CostBasisNonNegative ==
    [][(/\ last'.op = "_update_position"
        /\ last'.trade.avg_fill_price > 0
        /\ ListedTransition(last'.trade.direction, last'.trade.filled_quantity,
                            positions[<<last'.strategy, last'.symbol>>].quantity)
        /\ SoundCostBasis(positions[<<last'.strategy, last'.symbol>>]))
         => SoundCostBasis(positions'[<<last'.strategy, last'.symbol>>])]_vars


(***************************************************************************)
(* SpecShared: two Strategy objects of one portfolio, hence of one TMS,    *)
(* constructed with ids that may be equal                                  *)
(***************************************************************************)
\* Strategy.positions: the positions of tms.positions whose key holds the
\* strategy_id of the object
strategy_positions(pos, o) == [y \in Symbols |-> pos[<<strategy_id[o], y>>]]

\* tms._update_position(strategy, trade), whose key is
\* (strategy.strategy_id, trade.symbol), and
\* tms._record_in_hierarchy_ledgers(strategy, trade)
book_trade_of(w, o, trade) ==
    _record_in_hierarchy_ledgers(_update_position(w, strategy_id[o], trade),
                                 o, trade)

BookTradeOf(o, trade) ==
    /\ trade.strategy = o
    /\ trade.trade_id = next_id
    /\ SetWorld(book_trade_of([World EXCEPT !.next_id = next_id + 1], o,
                              trade))
    /\ last' = [NoCall EXCEPT !.op = "book_trade", !.strategy = o,
                              !.symbol = trade.symbol, !.trade = trade,
                              !.outcome = "OK"]
    /\ UNCHANGED <<portfolio, fund, trade_account, trade_rules, nrules,
                   capital, systems, strategy_id>>

\* S1 and S2 are strategies of P1; S1 was constructed with the id "S1" and
\* S2 with any id
InitShared ==
    /\ InitHierarchy({t \in Topologies :
                          /\ \A s \in Strategies : t.portfolio[s] = "P1"
                          /\ t.trade_account = None})
    /\ trade_rules = [l \in Levels |-> DefaultTradeRules]
    /\ positions = NoPositions
    /\ clock = 1
    /\ next_id = 1
    /\ InitObjects
    /\ \E id \in Strategies :
         strategy_id = [s \in Strategies |-> IF s = "S1" THEN "S1" ELSE id]

BookFillShared ==
    /\ next_id <= MaxBooked
    /\ \E o \in Strategies, direction \in AllDirections,
          quantity \in {1, MaxQty} :
         BookTradeOf(o, Fill(o, "AAPL", direction, quantity, 1, next_id))

NextShared == BookFillShared \/ PlaceOrderBooked

SpecShared == InitShared /\ [][NextShared]_vars

\* C40: an order placed by a strategy changes nothing of any other
\* Strategy object sharing its TMS, whatever ids the two were constructed
\* with: the positions seen through the other's positions property, its
\* cash balance and its ledger stay as they were.
C40_OtherStrategyUntouched ==
    [][\A b \in Strategies :
          (/\ last'.op = "place_order"
           /\ last'.strategy # b)
            => /\ strategy_positions(positions', b)
                    = strategy_positions(positions, b)
               /\ cash_balance_at(positions', strategy_id[b], NoCall.current_prices)
                    = cash_balance_at(positions, strategy_id[b], NoCall.current_prices)
               /\ ledger'[b] = ledger[b]]_vars

\* an order of S1 handed to execute_trade while S2, constructed with the
\* same id, sees through its positions property the position the order is
\* derived from
C40_Witness ==
    /\ last.op = "place_order"
    /\ last.strategy = "S1"
    /\ last.order_status = SUBMITTED
    /\ strategy_id["S2"] = strategy_id["S1"]
    /\ strategy_positions(positions, "S2")["AAPL"].quantity # 0
    /\ ledger["S2"] # <<>>


=============================
